---- MODULE Spec2Model ----
(***************************************************************************)
(* Model of the plugin-side storage layer (core/src/storage/mod.rs), of    *)
(* the stateless config-menu attachment protocol (core/src/config/mod.rs)  *)
(* and of the descriptor macros (macros/src/lib.rs) of rust-wiiu/wups.     *)
(*                                                                         *)
(* Text (keys, display text, String values) is a sequence of bytes, so an  *)
(* embedded NUL is the byte 0.  A value of a fixed-width type is its       *)
(* in-memory image: a sequence of size_of(T) bytes, most significant byte  *)
(* first (the target is big-endian PowerPC); store and load hand exactly   *)
(* that image to the host through a raw pointer.  i32 quantities that the  *)
(* config layer compares are integers (TLC integers are 32-bit signed).    *)
(*                                                                         *)
(* The host (storage API, config API) is an external collaborator; it is   *)
(* modelled from section 6 of the specification.  Only the content the     *)
(* host serves through get_item is modelled, not its backing medium.       *)
(***************************************************************************)
EXTENDS Integers, Sequences, FiniteSets, TLC

VARIABLES
    storage,            \* host store: key -> item (or NoItem)
    menu,               \* host UI: items added to the category in this menu session
    last,               \* the most recent call into the plugin API and its outcome
    panicked,           \* the process has aborted (panic -> OSFatal)
    debug_assertions,   \* build profile: are debug_assert!s compiled in
    written,            \* history: per key, what the last successful store, delete or
                        \*          reset that touched it did
    image,              \* the items the macros have emitted into the plugin crate, in
                        \*          the order of their expansion
    initialized,        \* the runtime pieces whose init ran and whose fini did not
    slots,              \* the `real_<function>` statics the loader has filled: symbol -> address
    registered,         \* history: the hook registrations made, in order
    categories,         \* host UI: the categories created for Menu values, in order
    owned               \* plugin: the handles of the Menu values it still holds

vars == <<initialized, storage, menu, last, panicked, debug_assertions, written, image, slots, registered,
          categories, owned>>

(***************************************************************************)
(* Bounds of the model                                                     *)
(***************************************************************************)
MaxItems == 2           \* items the host category holds in one menu session
MaxHooks == 3           \* hook registrations in the plugin crate
MaxEntries == 2         \* function hooks in the plugin crate
MaxMeta == 2            \* metadata macro invocations in the plugin crate
MaxMenus == 2           \* Menu values created in one menu session

(***************************************************************************)
(* Bytes and text                                                          *)
(***************************************************************************)
Fill(n, b) == [i \in 1..n |-> b]

HasNul(s) == \E i \in 1..Len(s) : s[i] = 0

\* CString::new: rejects an interior NUL, otherwise appends the terminator.
CString_new(s) ==
    IF HasNul(s) THEN [ok |-> FALSE, c |-> <<>>]
    ELSE [ok |-> TRUE, c |-> s \o <<0>>]

\* What C code reads through a `const char *`: the bytes before the first NUL.
RECURSIVE CStr(_)
CStr(c) ==
    IF c = <<>> \/ Head(c) = 0 THEN <<>>
    ELSE <<Head(c)>> \o CStr(Tail(c))

\* Memory image of an i32 (two's complement, big-endian).
I32ToBytes(v) ==
    LET u == IF v >= 0 THEN v ELSE (v + 2147483647) + 1
    IN  << (u \div 16777216) + (IF v < 0 THEN 128 ELSE 0),
           (u \div 65536) % 256,
           (u \div 256) % 256,
           u % 256 >>

\* The i32 held by a 4-byte memory image.
BytesToI32(b) ==
    IF b[1] >= 128
    THEN (((b[1] - 128) * 16777216 + b[2] * 65536 + b[3] * 256 + b[4]) - 2147483647) - 1
    ELSE b[1] * 16777216 + b[2] * 65536 + b[3] * 256 + b[4]

\* Memory image of the u32 n, for 0 <= n < 2^31.
U32ToBytes(n) == I32ToBytes(n)

\* a < b for two u32 memory images.
U32Less(a, b) ==
    \E i \in 1..4 : /\ a[i] < b[i]
                    /\ \A j \in 1..(i - 1) : a[j] = b[j]

\* `v as i32` for a u32 memory image: the same bits.
U32AsI32(b) == BytesToI32(b)

BoolToBytes(b) == IF b THEN <<1>> ELSE <<0>>
BytesToBool(b) == b[1] # 0

(***************************************************************************)
(* Results                                                                 *)
(***************************************************************************)
Ok(v)         == [tag |-> "Ok",    val |-> v,    err |-> "",  code |-> 0, inner |-> ""]
Err(e)        == [tag |-> "Err",   val |-> <<>>, err |-> e,   code |-> 0, inner |-> ""]
ErrCode(e, c) == [tag |-> "Err",   val |-> <<>>, err |-> e,   code |-> c, inner |-> ""]
Panic         == [tag |-> "Panic", val |-> <<>>, err |-> "",  code |-> 0, inner |-> ""]
Unit          == <<>>

(***************************************************************************)
(* Storage host API (external collaborator)                                *)
(***************************************************************************)
WUPS_STORAGE_ERROR_SUCCESS                  == 0
WUPS_STORAGE_ERROR_INVALID_ARGS             == -1
WUPS_STORAGE_ERROR_MALLOC_FAILED            == -2
WUPS_STORAGE_ERROR_UNEXPECTED_DATA_TYPE     == -3
WUPS_STORAGE_ERROR_BUFFER_TOO_SMALL         == -4
WUPS_STORAGE_ERROR_ALREADY_EXISTS           == -5
WUPS_STORAGE_ERROR_IO_ERROR                 == -6
WUPS_STORAGE_ERROR_NOT_FOUND                == -7
WUPS_STORAGE_ERROR_INTERNAL_NOT_INITIALIZED == -240
WUPS_STORAGE_ERROR_INTERNAL_INVALID_VERSION == -241

NoItem == [type |-> "NONE", data |-> <<>>]

\* Width the host expects for a fixed-width item type, 0 for text and binary.
HostItemSize(type) ==
    CASE type = "WUPS_STORAGE_ITEM_S32"    -> 4
      [] type = "WUPS_STORAGE_ITEM_S64"    -> 8
      [] type = "WUPS_STORAGE_ITEM_U32"    -> 4
      [] type = "WUPS_STORAGE_ITEM_U64"    -> 8
      [] type = "WUPS_STORAGE_ITEM_BOOL"   -> 1
      [] type = "WUPS_STORAGE_ITEM_FLOAT"  -> 4
      [] type = "WUPS_STORAGE_ITEM_DOUBLE" -> 8
      [] OTHER -> 0

\* One host call as it is logged in `last.calls`: the arguments, the status
\* returned and, for get_item, the bytes written to the caller's buffer.
StorageCall(fn, key, type, data, size, status, out) ==
    [fn |-> fn, key |-> key, type |-> type, data |-> data, size |-> size,
     status |-> status, out |-> out]

\* get_item(key, type_tag, out_buffer, buffer_len) -> status.
\* fault # 0: the host fails the call with that status (no data, nothing read).
WUPSStorageAPI_GetItem(st, name, type, maxSize, fault) ==
    LET fail(s) == [status |-> s, data |-> <<>>, out |-> 0]
        Get(item) ==
            IF item = NoItem THEN fail(WUPS_STORAGE_ERROR_NOT_FOUND)
            ELSE IF item.type # type THEN fail(WUPS_STORAGE_ERROR_UNEXPECTED_DATA_TYPE)
            ELSE IF type = "WUPS_STORAGE_ITEM_STRING"
                 THEN IF Len(item.data) + 1 > maxSize
                      THEN fail(WUPS_STORAGE_ERROR_BUFFER_TOO_SMALL)
                      ELSE [status |-> WUPS_STORAGE_ERROR_SUCCESS,
                            data |-> item.data \o <<0>>, out |-> Len(item.data) + 1]
            ELSE IF type = "WUPS_STORAGE_ITEM_BINARY"
                 THEN IF Len(item.data) > maxSize
                      THEN fail(WUPS_STORAGE_ERROR_BUFFER_TOO_SMALL)
                      ELSE [status |-> WUPS_STORAGE_ERROR_SUCCESS,
                            data |-> item.data, out |-> Len(item.data)]
            ELSE IF maxSize # HostItemSize(type)
                 THEN fail(WUPS_STORAGE_ERROR_INVALID_ARGS)
                 ELSE [status |-> WUPS_STORAGE_ERROR_SUCCESS,
                       data |-> item.data, out |-> HostItemSize(type)]
    IN  IF fault # 0 THEN fail(fault) ELSE Get(st[CStr(name)])

\* store_item(key, type_tag, in_buffer, buffer_len) -> status.
WUPSStorageAPI_StoreItem(st, name, type, data, length, fault) ==
    LET fail(s) == [status |-> s, st |-> st]
    IN  IF fault # 0 THEN fail(fault)
        ELSE IF HostItemSize(type) # 0 /\ length # HostItemSize(type)
             THEN fail(WUPS_STORAGE_ERROR_INVALID_ARGS)
        ELSE [status |-> WUPS_STORAGE_ERROR_SUCCESS,
              st |-> [st EXCEPT ![CStr(name)] =
                                 [type |-> type, data |-> SubSeq(data, 1, length)]]]

\* delete_item(key) -> status.
WUPSStorageAPI_DeleteItem(st, name, fault) ==
    LET Del(key) ==
            IF st[key] = NoItem
            THEN [status |-> WUPS_STORAGE_ERROR_NOT_FOUND, st |-> st]
            ELSE [status |-> WUPS_STORAGE_ERROR_SUCCESS, st |-> [st EXCEPT ![key] = NoItem]]
    IN  IF fault # 0 THEN [status |-> fault, st |-> st] ELSE Del(CStr(name))

\* wipe_storage() -> status.
WUPSStorageAPI_WipeStorage(st, fault) ==
    IF fault # 0 THEN [status |-> fault, st |-> st]
    ELSE [status |-> WUPS_STORAGE_ERROR_SUCCESS, st |-> [k \in DOMAIN st |-> NoItem]]

\* force_reload_storage() -> status.
WUPSStorageAPI_ForceReloadStorage(st, fault) ==
    [status |-> fault, st |-> st]

\* save_storage(force) -> status.
WUPSStorageAPI_SaveStorage(st, force, fault) ==
    [status |-> fault, st |-> st]

(***************************************************************************)
(* storage/mod.rs                                                          *)
(***************************************************************************)
STORAGE_MAX_LENGTH == 1024

\* The mapping with the code of an unnamed negative status dropped.
StorageError_try_from_codeless(value) ==
    IF value >= 0 THEN [tag |-> "Ok", val |-> <<>>, err |-> "UnknownError",
                        code |-> value, inner |-> ""]
    ELSE CASE value = WUPS_STORAGE_ERROR_INVALID_ARGS -> Err("InvalidArgs")
           [] value = WUPS_STORAGE_ERROR_MALLOC_FAILED -> Err("MallocFailed")
           [] value = WUPS_STORAGE_ERROR_UNEXPECTED_DATA_TYPE -> Err("UnexpectedDataType")
           [] value = WUPS_STORAGE_ERROR_BUFFER_TOO_SMALL -> Err("BufferTooSmall")
           [] value = WUPS_STORAGE_ERROR_ALREADY_EXISTS -> Err("AlreadyExists")
           [] value = WUPS_STORAGE_ERROR_IO_ERROR -> Err("IoError")
           [] value = WUPS_STORAGE_ERROR_NOT_FOUND -> Err("NotFound")
           [] value = WUPS_STORAGE_ERROR_INTERNAL_NOT_INITIALIZED -> Err("InternalNotInitialized")
           [] value = WUPS_STORAGE_ERROR_INTERNAL_INVALID_VERSION -> Err("InternalInvalidVersion")
           [] OTHER -> Err("UnknownError")

\* <StorageError as TryFrom<i32>>::try_from
StorageError_try_from(value) ==
    IF value >= 0 THEN [tag |-> "Ok", val |-> <<>>, err |-> "UnknownError",
                        code |-> value, inner |-> ""]
    ELSE CASE value = WUPS_STORAGE_ERROR_INVALID_ARGS -> Err("InvalidArgs")
           [] value = WUPS_STORAGE_ERROR_MALLOC_FAILED -> Err("MallocFailed")
           [] value = WUPS_STORAGE_ERROR_UNEXPECTED_DATA_TYPE -> Err("UnexpectedDataType")
           [] value = WUPS_STORAGE_ERROR_BUFFER_TOO_SMALL -> Err("BufferTooSmall")
           [] value = WUPS_STORAGE_ERROR_ALREADY_EXISTS -> Err("AlreadyExists")
           [] value = WUPS_STORAGE_ERROR_IO_ERROR -> Err("IoError")
           [] value = WUPS_STORAGE_ERROR_NOT_FOUND -> Err("NotFound")
           [] value = WUPS_STORAGE_ERROR_INTERNAL_NOT_INITIALIZED -> Err("InternalNotInitialized")
           [] value = WUPS_STORAGE_ERROR_INTERNAL_INVALID_VERSION -> Err("InternalInvalidVersion")
           [] OTHER -> ErrCode("UnknownError", value)

\* core::mem::size_of::<T>() of the fixed-width storable types.
size_of(T) ==
    CASE T = "i32"  -> 4
      [] T = "i64"  -> 8
      [] T = "u32"  -> 4
      [] T = "u64"  -> 8
      [] T = "bool" -> 1
      [] T = "f32"  -> 4
      [] T = "f64"  -> 8

\* StorageCompatible::ITEM_TYPE of each impl.
ITEM_TYPE(T) ==
    CASE T = "i32"     -> "WUPS_STORAGE_ITEM_S32"
      [] T = "i64"     -> "WUPS_STORAGE_ITEM_S64"
      [] T = "u32"     -> "WUPS_STORAGE_ITEM_U32"
      [] T = "u64"     -> "WUPS_STORAGE_ITEM_U64"
      [] T = "bool"    -> "WUPS_STORAGE_ITEM_BOOL"
      [] T = "f32"     -> "WUPS_STORAGE_ITEM_FLOAT"
      [] T = "f64"     -> "WUPS_STORAGE_ITEM_DOUBLE"
      [] T = "String"  -> "WUPS_STORAGE_ITEM_STRING"
      [] T = "Vec<u8>" -> "WUPS_STORAGE_ITEM_BINARY"

\* Default::default() of T::T.
Default(T) ==
    IF T \in {"String", "Vec<u8>"} THEN <<>> ELSE Fill(size_of(T), 0)

\* The caller's buffer after the host has written `data` at its start.
Overlay(buf, data) ==
    [i \in 1..Len(buf) |-> IF i <= Len(data) THEN data[i] ELSE buf[i]]

\* What an operation of the storage layer yields: its result, the host calls
\* it made and the host store it leaves.
Outcome(res, calls, st) == [res |-> res, calls |-> calls, st |-> st]

\* String::from_utf8_lossy: valid UTF-8 is kept; every maximal invalid part
\* becomes U+FFFD (EF BF BD).
IsCont(s, i) == i <= Len(s) /\ s[i] >= 128 /\ s[i] <= 191

\* Number of bytes of the valid character at s[i], or 0 when none starts there.
Utf8Width(s, i) ==
    LET b == s[i]
        second(lo, hi) == i + 1 <= Len(s) /\ s[i + 1] >= lo /\ s[i + 1] <= hi
    IN  IF b < 128 THEN 1
        ELSE IF b >= 194 /\ b <= 223 THEN (IF IsCont(s, i + 1) THEN 2 ELSE 0)
        ELSE IF b >= 224 /\ b <= 239
             THEN IF /\ (IF b = 224 THEN second(160, 191)
                         ELSE IF b = 237 THEN second(128, 159)
                         ELSE second(128, 191))
                     /\ IsCont(s, i + 2)
                  THEN 3 ELSE 0
        ELSE IF b >= 240 /\ b <= 244
             THEN IF /\ (IF b = 240 THEN second(144, 191)
                         ELSE IF b = 244 THEN second(128, 143)
                         ELSE second(128, 191))
                     /\ IsCont(s, i + 2) /\ IsCont(s, i + 3)
                  THEN 4 ELSE 0
        ELSE 0

\* Length of the invalid part that starts at s[i] (Utf8Width(s, i) = 0).
Utf8ErrorLen(s, i) ==
    LET b == s[i]
        second(lo, hi) == i + 1 <= Len(s) /\ s[i + 1] >= lo /\ s[i + 1] <= hi
        secondOk == IF b = 224 THEN second(160, 191)
                    ELSE IF b = 237 THEN second(128, 159)
                    ELSE IF b = 240 THEN second(144, 191)
                    ELSE IF b = 244 THEN second(128, 143)
                    ELSE second(128, 191)
    IN  IF b < 194 \/ b > 244 THEN 1
        ELSE IF ~secondOk THEN 1
        ELSE IF b <= 223 THEN 1
        ELSE IF ~IsCont(s, i + 2) THEN 2
        ELSE IF b <= 239 THEN 2
        ELSE 3

RECURSIVE Utf8LossyFrom(_, _)
Utf8LossyFrom(s, i) ==
    IF i > Len(s) THEN <<>>
    ELSE LET w == Utf8Width(s, i)
         IN  IF w > 0 THEN SubSeq(s, i, i + w - 1) \o Utf8LossyFrom(s, i + w)
             ELSE <<239, 191, 189>> \o Utf8LossyFrom(s, i + Utf8ErrorLen(s, i))

from_utf8_lossy(v) ==
    IF \A i \in 1..Len(v) : v[i] < 128 THEN v ELSE Utf8LossyFrom(v, 1)

\* Every trailing NUL removed (str::trim_end_matches('\0')).
RECURSIVE trim_end_nul(_)
trim_end_nul(s) ==
    IF Len(s) > 0 /\ s[Len(s)] = 0 THEN trim_end_nul(SubSeq(s, 1, Len(s) - 1)) ELSE s

\* str::strip_suffix('\0').unwrap_or(s)
strip_suffix_nul(s) ==
    IF Len(s) > 0 /\ s[Len(s)] = 0 THEN SubSeq(s, 1, Len(s) - 1) ELSE s

\* StorageCompatible::load with the host handed a buffer other than `value`:
\* the bytes read never reach the value that is returned.
StorageCompatible_load_stale(T, name, fault, st, dbg) ==
    LET cname == CString_new(name)
        Got(r) ==
            LET calls == <<StorageCall("WUPSStorageAPI_GetItem", CStr(cname.c), ITEM_TYPE(T),
                                       r.data, size_of(T), r.status, r.out)>>
                e     == StorageError_try_from(r.status)
            IN  IF dbg /\ r.out # size_of(T) THEN Outcome(Panic, calls, st)
                ELSE IF e.tag = "Err" THEN Outcome(e, calls, st)
                ELSE Outcome(Ok(Default(T)), calls, st)
    IN  IF ~cname.ok THEN Outcome(Err("ContainsNullBytes"), <<>>, st)
        ELSE Got(WUPSStorageAPI_GetItem(st, cname.c, ITEM_TYPE(T), size_of(T), fault))

\* StorageCompatible::load, the provided method (fixed-width types).
\* dbg: the build has debug assertions. Got(r): what follows the host call,
\* r being what the host returned.
StorageCompatible_load(T, name, fault, st, dbg) ==
    LET cname == CString_new(name)
        Got(r) ==
            LET calls == <<StorageCall("WUPSStorageAPI_GetItem", CStr(cname.c), ITEM_TYPE(T),
                                       r.data, size_of(T), r.status, r.out)>>
                value == Overlay(Default(T), r.data)
                e     == StorageError_try_from(r.status)
            IN  IF dbg /\ r.out # size_of(T) THEN Outcome(Panic, calls, st)
                ELSE IF e.tag = "Err" THEN Outcome(e, calls, st)
                ELSE Outcome(Ok(value), calls, st)
    IN  IF ~cname.ok THEN Outcome(Err("ContainsNullBytes"), <<>>, st)
        ELSE Got(WUPSStorageAPI_GetItem(st, cname.c, ITEM_TYPE(T), size_of(T), fault))

\* StorageCompatible::store, the provided method (fixed-width types).
StorageCompatible_store(T, name, value, fault, st) ==
    LET cname == CString_new(name)
        Stored(r) ==
            LET calls == <<StorageCall("WUPSStorageAPI_StoreItem", CStr(cname.c), ITEM_TYPE(T),
                                       value, size_of(T), r.status, 0)>>
                e     == StorageError_try_from(r.status)
            IN  IF e.tag = "Err" THEN Outcome(e, calls, st)
                ELSE Outcome(Ok(Unit), calls, r.st)
    IN  IF ~cname.ok THEN Outcome(Err("ContainsNullBytes"), <<>>, st)
        ELSE Stored(WUPSStorageAPI_StoreItem(st, cname.c, ITEM_TYPE(T), value,
                                             size_of(T), fault))

\* <String as StorageCompatible>::load
String_load(name, fault, st, dbg) ==
    LET cname == CString_new(name)
        buf   == Fill(STORAGE_MAX_LENGTH, 0)
        Got(r) ==
            LET calls == <<StorageCall("WUPSStorageAPI_GetItem", CStr(cname.c),
                                       ITEM_TYPE("String"), r.data, Len(buf), r.status, r.out)>>
                value == Overlay(buf, r.data)
                e     == StorageError_try_from(r.status)
                s     == from_utf8_lossy(SubSeq(value, 1, r.out))
            IN  IF dbg /\ ~(r.out < Len(buf)) THEN Outcome(Panic, calls, st)
                ELSE IF e.tag = "Err" THEN Outcome(e, calls, st)
                ELSE Outcome(Ok(strip_suffix_nul(s)), calls, st)
    IN  IF ~cname.ok THEN Outcome(Err("ContainsNullBytes"), <<>>, st)
        ELSE Got(WUPSStorageAPI_GetItem(st, cname.c, ITEM_TYPE("String"), Len(buf), fault))

\* <String as StorageCompatible>::store
String_store(name, value, fault, st) ==
    LET cname == CString_new(name)
        Stored(r) ==
            LET calls == <<StorageCall("WUPSStorageAPI_StoreItem", CStr(cname.c),
                                       ITEM_TYPE("String"), value, Len(value), r.status, 0)>>
                e     == StorageError_try_from(r.status)
            IN  IF e.tag = "Err" THEN Outcome(e, calls, st)
                ELSE Outcome(Ok(Unit), calls, r.st)
    IN  IF ~cname.ok THEN Outcome(Err("ContainsNullBytes"), <<>>, st)
        ELSE IF Len(value) >= STORAGE_MAX_LENGTH THEN Outcome(Err("BufferTooSmall"), <<>>, st)
        ELSE Stored(WUPSStorageAPI_StoreItem(st, cname.c, ITEM_TYPE("String"), value,
                                             Len(value), fault))

\* <Vec<u8> as StorageCompatible>::load
Vec_load(name, fault, st, dbg) ==
    LET cname == CString_new(name)
        buf   == Fill(STORAGE_MAX_LENGTH, 0)
        Got(r) ==
            LET calls == <<StorageCall("WUPSStorageAPI_GetItem", CStr(cname.c),
                                       ITEM_TYPE("Vec<u8>"), r.data, Len(buf), r.status, r.out)>>
                value == Overlay(buf, r.data)
                e     == StorageError_try_from(r.status)
            IN  IF dbg /\ ~(r.out < Len(buf)) THEN Outcome(Panic, calls, st)
                ELSE IF e.tag = "Err" THEN Outcome(e, calls, st)
                ELSE Outcome(Ok(SubSeq(value, 1, r.out)), calls, st)
    IN  IF ~cname.ok THEN Outcome(Err("ContainsNullBytes"), <<>>, st)
        ELSE Got(WUPSStorageAPI_GetItem(st, cname.c, ITEM_TYPE("Vec<u8>"), Len(buf), fault))

\* <Vec<u8> as StorageCompatible>::store
Vec_store(name, value, fault, st) ==
    LET cname == CString_new(name)
        Stored(r) ==
            LET calls == <<StorageCall("WUPSStorageAPI_StoreItem", CStr(cname.c),
                                       ITEM_TYPE("Vec<u8>"), value, Len(value), r.status, 0)>>
                e     == StorageError_try_from(r.status)
            IN  IF e.tag = "Err" THEN Outcome(e, calls, st)
                ELSE Outcome(Ok(Unit), calls, r.st)
    IN  IF ~cname.ok THEN Outcome(Err("ContainsNullBytes"), <<>>, st)
        ELSE IF Len(value) >= STORAGE_MAX_LENGTH THEN Outcome(Err("BufferTooSmall"), <<>>, st)
        ELSE Stored(WUPSStorageAPI_StoreItem(st, cname.c, ITEM_TYPE("Vec<u8>"), value,
                                             Len(value), fault))

\* storage::load::<T>(name): dispatch to T's impl.
load(T, name, fault, st, dbg) ==
    IF T = "String" THEN String_load(name, fault, st, dbg)
    ELSE IF T = "Vec<u8>" THEN Vec_load(name, fault, st, dbg)
    ELSE StorageCompatible_load(T, name, fault, st, dbg)

\* storage::load_or_default::<T>(name)
load_or_default(T, name, fault, st, dbg) ==
    LET Loaded(r) ==
            IF r.res.tag = "Panic" THEN r
            ELSE IF r.res.tag = "Ok" THEN r
            ELSE Outcome(Ok(Default(T)), r.calls, r.st)
    IN  Loaded(load(T, name, fault, st, dbg))

\* storage::store::<T>(name, value): dispatch to T's impl.
store(T, name, value, fault, st) ==
    IF T = "String" THEN String_store(name, value, fault, st)
    ELSE IF T = "Vec<u8>" THEN Vec_store(name, value, fault, st)
    ELSE StorageCompatible_store(T, name, value, fault, st)

\* storage::delete(name)
delete(name, fault, st) ==
    LET cname == CString_new(name)
        Deleted(r) ==
            LET calls == <<StorageCall("WUPSStorageAPI_DeleteItem", CStr(cname.c), "", <<>>, 0,
                                       r.status, 0)>>
                e     == StorageError_try_from(r.status)
            IN  IF e.tag = "Err" THEN Outcome(e, calls, st)
                ELSE Outcome(Ok(Unit), calls, r.st)
    IN  IF ~cname.ok THEN Outcome(Err("ContainsNullBytes"), <<>>, st)
        ELSE Deleted(WUPSStorageAPI_DeleteItem(st, cname.c, fault))

\* storage::reset()
reset(fault, st) ==
    LET Wiped(r) ==
            LET calls == <<StorageCall("WUPSStorageAPI_WipeStorage", <<>>, "", <<>>, 0,
                                       r.status, 0)>>
                e     == StorageError_try_from(r.status)
            IN  IF e.tag = "Err" THEN Outcome(e, calls, st)
                ELSE Outcome(Ok(Unit), calls, r.st)
    IN  Wiped(WUPSStorageAPI_WipeStorage(st, fault))

\* storage::reload()
reload(fault, st) ==
    LET Reloaded(r) ==
            LET calls == <<StorageCall("WUPSStorageAPI_ForceReloadStorage", <<>>, "", <<>>, 0,
                                       r.status, 0)>>
                e     == StorageError_try_from(r.status)
            IN  IF e.tag = "Err" THEN Outcome(e, calls, st)
                ELSE Outcome(Ok(Unit), calls, r.st)
    IN  Reloaded(WUPSStorageAPI_ForceReloadStorage(st, fault))

\* storage::save(force)
save(force, fault, st) ==
    LET Saved(r) ==
            LET calls == <<StorageCall("WUPSStorageAPI_SaveStorage", <<>>, "",
                                       BoolToBytes(force), 0, r.status, 0)>>
                e     == StorageError_try_from(r.status)
            IN  IF e.tag = "Err" THEN Outcome(e, calls, st)
                ELSE Outcome(Ok(Unit), calls, r.st)
    IN  Saved(WUPSStorageAPI_SaveStorage(st, force, fault))

(***************************************************************************)
(* Config host API (external collaborator)                                 *)
(***************************************************************************)
WUPSCONFIG_API_RESULT_SUCCESS                   == 0
WUPSCONFIG_API_RESULT_INVALID_ARGUMENT          == -1
WUPSCONFIG_API_RESULT_OUT_OF_MEMORY             == -3
WUPSCONFIG_API_RESULT_NOT_FOUND                 == -6
WUPSCONFIG_API_RESULT_INVALID_PLUGIN_IDENTIFIER == -112
WUPSCONFIG_API_RESULT_MISSING_CALLBACK          == -113
WUPSCONFIG_API_RESULT_MODULE_NOT_FOUND          == -128
WUPSCONFIG_API_RESULT_MODULE_MISSING_EXPORT     == -129
WUPSCONFIG_API_RESULT_UNSUPPORTED_VERSION       == -130
WUPSCONFIG_API_RESULT_UNSUPPORTED_COMMAND       == -131
WUPSCONFIG_API_RESULT_LIB_UNINITIALIZED         == -132

RootHandle == 1

\* An item as the host keeps it in a category: the identifier it hands back
\* to the change callback and the values its widget lets the user pick.
HostItem(kind, parent, identifier, lo, hi, callback) ==
    [kind |-> kind, parent |-> parent, identifier |-> identifier,
     lo |-> lo, hi |-> hi, callback |-> callback]

\* One "add to category" call as it is logged in `last.calls`.
ConfigCall(fn, handle, id, text, default, current, min, max, count, callback, status) ==
    [fn |-> fn, handle |-> handle, id |-> id, text |-> text, default |-> default,
     current |-> current, min |-> min, max |-> max, count |-> count,
     callback |-> callback, status |-> status]

\* Every "add to category" call: the host answers `status`; on success the
\* item is in the category.
AddToCategory(m, item, status) ==
    IF status = WUPSCONFIG_API_RESULT_SUCCESS THEN Append(m, item) ELSE m

(***************************************************************************)
(* config/mod.rs                                                           *)
(***************************************************************************)
\* <MenuError as TryFrom<WUPSConfigAPICallbackStatus::Type>>::try_from
MenuError_try_from(value) ==
    CASE value = WUPSCONFIG_API_RESULT_SUCCESS ->
            [tag |-> "Ok", val |-> <<>>, err |-> "Unknown", code |-> value, inner |-> ""]
      [] value = WUPSCONFIG_API_RESULT_INVALID_ARGUMENT -> Err("InvalidArgument")
      [] value = WUPSCONFIG_API_RESULT_OUT_OF_MEMORY -> Err("OutOfMemory")
      [] value = WUPSCONFIG_API_RESULT_NOT_FOUND -> Err("NotFound")
      [] value = WUPSCONFIG_API_RESULT_INVALID_PLUGIN_IDENTIFIER -> Err("InvalidPluginIdentifier")
      [] value = WUPSCONFIG_API_RESULT_MISSING_CALLBACK -> Err("MissingCallback")
      [] value = WUPSCONFIG_API_RESULT_MODULE_NOT_FOUND -> Err("ModuleNotFound")
      [] value = WUPSCONFIG_API_RESULT_MODULE_MISSING_EXPORT -> Err("ModuleMissingExport")
      [] value = WUPSCONFIG_API_RESULT_UNSUPPORTED_VERSION -> Err("UnsupportedVersion")
      [] value = WUPSCONFIG_API_RESULT_UNSUPPORTED_COMMAND -> Err("UnsupportedCommand")
      [] value = WUPSCONFIG_API_RESULT_LIB_UNINITIALIZED -> Err("LibUninitialized")
      [] OTHER -> ErrCode("Unknown", value)

\* <MenuError as TryFrom<WUPSConfigAPICallbackStatus::Type>>::try_from of
\* ui/mod.rs: no arm for INVALID_ARGUMENT, and INVALID_PLUGIN_IDENTIFIER is
\* given the variant INVALID_ARGUMENT.
ui_MenuError_try_from(value) ==
    CASE value = WUPSCONFIG_API_RESULT_SUCCESS ->
            [tag |-> "Ok", val |-> <<>>, err |-> "Unknown", code |-> value, inner |-> ""]
      [] value = WUPSCONFIG_API_RESULT_INVALID_PLUGIN_IDENTIFIER -> Err("InvalidArgument")
      [] value = WUPSCONFIG_API_RESULT_OUT_OF_MEMORY -> Err("OutOfMemory")
      [] value = WUPSCONFIG_API_RESULT_NOT_FOUND -> Err("NotFound")
      [] value = WUPSCONFIG_API_RESULT_MISSING_CALLBACK -> Err("MissingCallback")
      [] value = WUPSCONFIG_API_RESULT_MODULE_NOT_FOUND -> Err("ModuleNotFound")
      [] value = WUPSCONFIG_API_RESULT_MODULE_MISSING_EXPORT -> Err("ModuleMissingExport")
      [] value = WUPSCONFIG_API_RESULT_UNSUPPORTED_VERSION -> Err("UnsupportedVersion")
      [] value = WUPSCONFIG_API_RESULT_UNSUPPORTED_COMMAND -> Err("UnsupportedCommand")
      [] value = WUPSCONFIG_API_RESULT_LIB_UNINITIALIZED -> Err("LibUninitialized")
      [] OTHER -> ErrCode("Unknown", value)

\* MenuError::STORAGE(e), also what `?` makes of a StorageError (#[from]).
MenuError_STORAGE(e) ==
    [tag |-> "Err", val |-> <<>>, err |-> "STORAGE", code |-> e.code, inner |-> e.err]

\* What an attach yields: its result, the host calls it made, the host
\* store and the host category it leaves.
MenuOutcome(res, calls, st, m) == [res |-> res, calls |-> calls, st |-> st, m |-> m]

\* A category call as it is logged in `last.calls`: create (handle is the
\* handle written back, 0 when none) and add (child into handle).
CategoryCall(fn, handle, child, text, status) ==
    [fn |-> fn, handle |-> handle, child |-> child, text |-> text, status |-> status]

\* The handle of the n-th category the host created.
CategoryHandle(n) == RootHandle + n

\* A sub-category as the host keeps it in its parent.
HostCategory(parent, handle) ==
    [kind |-> "Category", parent |-> parent, identifier |-> <<>>, lo |-> 0, hi |-> 0,
     callback |-> "", handle |-> handle]

\* Menu::new(text): the host creates a category and writes its handle back.
\* Yields [res, calls, cats]; res.val is the Menu.
Menu_new(text, status, cats) ==
    LET e      == MenuError_try_from(status)
        handle == CategoryHandle(Len(cats) + 1)
    IN  IF HasNul(text) THEN [res |-> Panic, calls |-> <<>>, cats |-> cats]
        ELSE IF e.tag = "Err"
        THEN [res |-> e, cats |-> cats,
              calls |-> <<CategoryCall("WUPSConfigAPI_Category_CreateEx", 0, 0, text, status)>>]
        ELSE [res |-> Ok([text |-> text, handle |-> handle]),
              cats |-> Append(cats, [text |-> text]),
              calls |-> <<CategoryCall("WUPSConfigAPI_Category_CreateEx", handle, 0, text,
                                       status)>>]

\* ConfigMenu::init(name): registers the open and close callbacks with the
\* host under the plugin's name. Yields [res, calls].
ConfigMenu_init(name, status) ==
    LET e == MenuError_try_from(status)
    IN  IF HasNul(name) THEN [res |-> Panic, calls |-> <<>>]
        ELSE [res   |-> IF e.tag = "Err" THEN e ELSE Ok(Unit),
              calls |-> <<CategoryCall("WUPSConfigAPI_Init", 0, 0, name, status)>>]

\* Menu::attach with the Menu borrowed instead of moved: the plugin keeps it.
Menu_attach_borrowed(self, handle, status, m, own) ==
    LET e == MenuError_try_from(status)
    IN  [res |-> IF e.tag = "Err" THEN e ELSE Ok(Unit),
         calls |-> <<CategoryCall("WUPSConfigAPI_Category_AddCategory", handle, self.handle,
                                  <<>>, status)>>,
         m |-> AddToCategory(m, HostCategory(handle, self.handle), status),
         own |-> own]

\* <Menu as MenuItem>::attach(self, handle): the Menu is moved into the call,
\* whatever the host answers. Yields [res, calls, m, own].
Menu_attach(self, handle, status, m, own) ==
    LET e == MenuError_try_from(status)
    IN  [res |-> IF e.tag = "Err" THEN e ELSE Ok(Unit),
         calls |-> <<CategoryCall("WUPSConfigAPI_Category_AddCategory", handle, self.handle,
                                  <<>>, status)>>,
         m |-> AddToCategory(m, HostCategory(handle, self.handle), status),
         own |-> own \ {self.handle}]

\* Label::new
Label_new(text) == [text |-> text]

\* <Label as MenuItem>::attach
Label_attach(self, handle, status, st, m) ==
    LET e    == MenuError_try_from(status)
        call == ConfigCall("WUPSConfigItemStub_AddToCategory", handle, <<>>, self.text,
                           0, 0, 0, 0, 0, "", status)
    IN  IF HasNul(self.text) THEN MenuOutcome(Panic, <<>>, st, m)
        ELSE MenuOutcome(IF e.tag = "Err" THEN e ELSE Ok(Unit), <<call>>, st,
                         AddToCategory(m, HostItem("Stub", handle, <<>>, 0, 0, ""), status))

\* The match with the store of the default in the arm of every load error.
CurrentOrDefault_any_error(T, id, default, loadFault, storeFault, st, dbg) ==
    LET Stored(s) ==
            IF s.res.tag = "Err"
            THEN [res |-> MenuError_STORAGE(s.res), loaded |-> FALSE, current |-> default,
                  calls |-> s.calls, st |-> s.st]
            ELSE [res |-> Ok(Unit), loaded |-> FALSE, current |-> default,
                  calls |-> s.calls, st |-> s.st]
        After(l, n) == [n EXCEPT !.calls = l.calls \o n.calls]
        Loaded(l) ==
            IF l.res.tag = "Panic"
            THEN [res |-> Panic, loaded |-> FALSE, current |-> default,
                  calls |-> l.calls, st |-> l.st]
            ELSE IF l.res.tag = "Ok"
            THEN [res |-> Ok(Unit), loaded |-> TRUE, current |-> l.res.val,
                  calls |-> l.calls, st |-> l.st]
            ELSE After(l, Stored(store(T, id, default, storeFault, l.st)))
    IN  Loaded(load(T, id, loadFault, st, dbg))

\* The `current` value of Toggle/Range/Select attach: match storage::load(id)
\* { Ok(v) => <the item's Ok arm on v>, Err(NotFound) => { store(id, default)?; default },
\*   Err(e) => return Err(STORAGE(e)) }.
\* Yields [res, loaded, current, calls, st]; res is Ok when attach goes on,
\* loaded tells that current is the stored v, for the item's Ok arm to act on.
CurrentOrDefault(T, id, default, loadFault, storeFault, st, dbg) ==
    LET Stored(s) ==
            IF s.res.tag = "Err"
            THEN [res |-> MenuError_STORAGE(s.res), loaded |-> FALSE, current |-> default,
                  calls |-> s.calls, st |-> s.st]
            ELSE [res |-> Ok(Unit), loaded |-> FALSE, current |-> default,
                  calls |-> s.calls, st |-> s.st]
        After(l, n) == [n EXCEPT !.calls = l.calls \o n.calls]
        Loaded(l) ==
            IF l.res.tag = "Panic"
            THEN [res |-> Panic, loaded |-> FALSE, current |-> default,
                  calls |-> l.calls, st |-> l.st]
            ELSE IF l.res.tag = "Ok"
            THEN [res |-> Ok(Unit), loaded |-> TRUE, current |-> l.res.val,
                  calls |-> l.calls, st |-> l.st]
            ELSE IF l.res.err = "NotFound"
            THEN After(l, Stored(store(T, id, default, storeFault, l.st)))
            ELSE [res |-> MenuError_STORAGE(l.res), loaded |-> FALSE, current |-> default,
                  calls |-> l.calls, st |-> l.st]
    IN  Loaded(load(T, id, loadFault, st, dbg))

\* Toggle::new
Toggle_new(text, id, default, true_value, false_value) ==
    [text |-> text, id |-> id, default |-> default,
     true_value |-> true_value, false_value |-> false_value]

\* <Toggle as MenuItem>::attach
Toggle_attach(self, handle, loadFault, storeFault, status, st, m, dbg) ==
    LET id   == CStr(CString_new(self.id).c)
        item == HostItem("Boolean", handle, id, 0, 1, "_callback_toggle_changed")
        Add(cur) ==
            LET call == ConfigCall("WUPSConfigItemBoolean_AddToCategoryEx", handle, id,
                                   self.text, self.default, BytesToBool(cur.current), 0, 0, 0,
                                   "_callback_toggle_changed", status)
                e    == MenuError_try_from(status)
            IN  IF cur.res.tag # "Ok" THEN MenuOutcome(cur.res, cur.calls, cur.st, m)
                ELSE MenuOutcome(IF e.tag = "Err" THEN e ELSE Ok(Unit),
                                 Append(cur.calls, call), cur.st,
                                 AddToCategory(m, item, status))
    IN  IF \/ HasNul(self.text) \/ HasNul(self.id)
           \/ HasNul(self.true_value) \/ HasNul(self.false_value)
        THEN MenuOutcome(Panic, <<>>, st, m)
        ELSE Add(CurrentOrDefault("bool", self.id, BoolToBytes(self.default),
                                  loadFault, storeFault, st, dbg))

\* The callback with the result of the store unwrapped instead of dropped.
callback_toggle_changed_unwrap(item, value, fault, st) ==
    LET Unwrapped(r) == Outcome(IF r.res.tag = "Err" THEN Panic ELSE Ok(Unit), r.calls, r.st)
    IN  Unwrapped(store("bool", from_utf8_lossy(item.identifier), BoolToBytes(value), fault, st))

\* _callback_toggle_changed(item, value): the result of the store is dropped.
callback_toggle_changed(item, value, fault, st) ==
    LET Ignored(r) == Outcome(Ok(Unit), r.calls, r.st)
    IN  Ignored(store("bool", from_utf8_lossy(item.identifier), BoolToBytes(value), fault, st))

\* Range::new; in a build with debug assertions an ill-formed range panics.
Range_new(text, id, default, min, max, dbg) ==
    IF dbg /\ ~(min < max /\ min < default /\ default < max)
    THEN [ok |-> FALSE, text |-> text, id |-> id, default |-> default, min |-> min, max |-> max]
    ELSE [ok |-> TRUE,  text |-> text, id |-> id, default |-> default, min |-> min, max |-> max]

\* The `Ok(v)` arm of Range attach with `||` for `&&`.
Range_pick_either(self, v) ==
    IF v > self.min \/ v < self.max THEN v ELSE self.default

\* The `Ok(v)` arm of Range attach.
Range_pick(self, v) ==
    IF v > self.min /\ v < self.max THEN v ELSE self.default

\* <Range as MenuItem>::attach
Range_attach(self, handle, loadFault, storeFault, status, st, m, dbg) ==
    LET id   == CStr(CString_new(self.id).c)
        item == HostItem("IntegerRange", handle, id, self.min, self.max,
                         "_callback_range_changed")
        Add(cur) ==
            LET current == IF cur.loaded THEN Range_pick(self, BytesToI32(cur.current))
                           ELSE self.default
                call == ConfigCall("WUPSConfigItemIntegerRange_AddToCategory", handle, id,
                                   self.text, self.default, current, self.min, self.max, 0,
                                   "_callback_range_changed", status)
                e    == MenuError_try_from(status)
            IN  IF cur.res.tag # "Ok" THEN MenuOutcome(cur.res, cur.calls, cur.st, m)
                ELSE MenuOutcome(IF e.tag = "Err" THEN e ELSE Ok(Unit),
                                 Append(cur.calls, call), cur.st,
                                 AddToCategory(m, item, status))
    IN  IF HasNul(self.text) \/ HasNul(self.id)
        THEN MenuOutcome(Panic, <<>>, st, m)
        ELSE Add(CurrentOrDefault("i32", self.id, I32ToBytes(self.default),
                                  loadFault, storeFault, st, dbg))

\* _callback_range_changed(item, value): the result of the store is dropped.
callback_range_changed(item, value, fault, st) ==
    LET Ignored(r) == Outcome(Ok(Unit), r.calls, r.st)
    IN  Ignored(store("i32", from_utf8_lossy(item.identifier), I32ToBytes(value), fault, st))

\* Select::new; default is a u32 below 2^31, options a sequence of texts.
Select_new(text, id, default, options, dbg) ==
    IF dbg /\ ~U32Less(U32ToBytes(default), U32ToBytes(Len(options)))
    THEN [ok |-> FALSE, text |-> text, id |-> id, default |-> default, options |-> options]
    ELSE [ok |-> TRUE,  text |-> text, id |-> id, default |-> default, options |-> options]

\* The `Ok(v)` arm of Select attach with the bound test off by one
\* (v <= options.len()).
Select_pick_inclusive(self, v) ==
    IF U32Less(U32ToBytes(0), v) /\ ~U32Less(U32ToBytes(Len(self.options)), v)
    THEN v ELSE U32ToBytes(self.default)

\* The `Ok(v)` arm of Select attach without the test of the index.
Select_pick_stored(self, v) == v

\* The `Ok(v)` arm of Select attach, on u32 memory images.
Select_pick(self, v) ==
    IF U32Less(U32ToBytes(0), v) /\ U32Less(v, U32ToBytes(Len(self.options)))
    THEN v ELSE U32ToBytes(self.default)

\* <Select as MenuItem>::attach
Select_attach(self, handle, loadFault, storeFault, status, st, m, dbg) ==
    LET id   == CStr(CString_new(self.id).c)
        item == HostItem("MultipleValues", handle, id, 0, Len(self.options) - 1,
                         "_callback_select_changed")
        Add(cur) ==
            LET current == IF cur.loaded THEN Select_pick(self, cur.current)
                           ELSE U32ToBytes(self.default)
                call == ConfigCall("WUPSConfigItemMultipleValues_AddToCategory", handle, id,
                                   self.text, U32AsI32(U32ToBytes(self.default)),
                                   U32AsI32(current), 0, 0, Len(self.options),
                                   "_callback_select_changed", status)
                e    == MenuError_try_from(status)
            IN  IF cur.res.tag # "Ok" THEN MenuOutcome(cur.res, cur.calls, cur.st, m)
                ELSE MenuOutcome(IF e.tag = "Err" THEN e ELSE Ok(Unit),
                                 Append(cur.calls, call), cur.st,
                                 AddToCategory(m, item, status))
    IN  IF HasNul(self.text) \/ HasNul(self.id)
        THEN MenuOutcome(Panic, <<>>, st, m)
        ELSE IF \E i \in 1..Len(self.options) : HasNul(self.options[i])
        THEN MenuOutcome(Err("InternalNullByte"), <<>>, st, m)
        ELSE Add(CurrentOrDefault("u32", self.id, U32ToBytes(self.default),
                                  loadFault, storeFault, st, dbg))

\* _callback_select_changed(item, index): the result of the store is dropped.
callback_select_changed(item, index, fault, st) ==
    LET Ignored(r) == Outcome(Ok(Unit), r.calls, r.st)
    IN  Ignored(store("u32", from_utf8_lossy(item.identifier), U32ToBytes(index), fault, st))

(***************************************************************************)
(* macros/src/lib.rs: the descriptor macros                                *)
(*                                                                         *)
(* An identifier is a sequence of bytes, a path a sequence of identifiers. *)
(* A macro expands to items of the plugin crate; an item is                *)
(* [symbol, section, value]. The items the macros emit are #[no_mangle]    *)
(* (init_storage and PLUGIN_NAME of WUPS_PLUGIN_NAME excepted), so their   *)
(* symbol is their name in the one namespace of the linked image; the two  *)
(* others are names of the crate, which holds one item of a name.          *)
(***************************************************************************)
Item(symbol, section, value) == [symbol |-> symbol, section |-> section, value |-> value]

\* segments.join(sep)
RECURSIVE Join(_, _)
Join(segments, sep) ==
    IF segments = <<>> THEN <<>>
    ELSE IF Len(segments) = 1 THEN segments[1]
    ELSE segments[1] \o sep \o Join(Tail(segments), sep)

\* wups_hook_ex!(hook_type, hook_target): one static in .wups.hooks, named
\* "wups_hooks_" + the segments of the target path joined by "__".
wups_hook_ex(hook_type, hook_target) ==
    LET name == <<119, 117, 112, 115, 95, 104, 111, 111, 107, 115, 95>>
                    \o Join(hook_target, <<95, 95>>)
    IN  <<Item(name, ".wups.hooks",
               [type_ |-> "WUPS_LOADER_HOOK_" \o hook_type, target |-> hook_target])>>

\* generate_proc_macro_attribute(hook_type, attr, item) for `fn func`: the
\* function as an extern "C" fn and its registration.
generate_proc_macro_attribute(hook_type, func) ==
    <<Item(func, ".text", [type_ |-> "fn", target |-> <<func>>])>>
        \o wups_hook_ex(hook_type, <<func>>)

\* The crate builds only if no two #[no_mangle] items share a symbol.
SymbolsDistinct(items) ==
    Cardinality({items[i].symbol : i \in 1..Len(items)}) = Len(items)

\* The records of one section of the built image, as the loader scans them.
Region(items, section) ==
    LET In(it) == it.section = section
        Of(region) == [i \in 1..Len(region) |-> region[i].value]
    IN  Of(SelectSeq(items, In))

\* A macro invocation the compiler rejects, with its error; the item stands
\* in the crate for the invocation, which left no item of its own.
Rejected(error) == Item(<<>>, "", [type_ |-> "error", error |-> error])

\* No invocation written in the crate is rejected by the compiler.
Compiles(items) == \A i \in 1..Len(items) : items[i].section # ""

\* The image the loader is given: none when the build is rejected.
Build(items) ==
    IF Compiles(items) /\ SymbolsDistinct(items)
    THEN [ok |-> TRUE,  hooks |-> Region(items, ".wups.hooks")]
    ELSE [ok |-> FALSE, hooks |-> <<>>]

\* The environment of the compiler: CARGO_PKG_VERSION is set to "1.0", the
\* other variables are not set.
CARGO_PKG_DESCRIPTION == <<67, 65, 82, 71, 79, 95, 80, 75, 71, 95, 68, 69, 83, 67, 82, 73,
                         80, 84, 73, 79, 78>>
CARGO_PKG_AUTHORS == <<67, 65, 82, 71, 79, 95, 80, 75, 71, 95, 65, 85, 84, 72, 79, 82, 83>>
CARGO_PKG_VERSION == <<67, 65, 82, 71, 79, 95, 80, 75, 71, 95, 86, 69, 82, 83, 73, 79, 78>>
CARGO_PKG_LICENSE == <<67, 65, 82, 71, 79, 95, 80, 75, 71, 95, 76, 73, 67, 69, 78, 83, 69>>
env_var(name) == IF name = CARGO_PKG_VERSION THEN [ok |-> TRUE, val |-> <<49, 46, 48>>]
                 ELSE [ok |-> FALSE, val |-> <<>>]

\* The value expression of a metadata pair: a string literal, env!("VAR") or
\* a bool literal.
LitStr(text) == [kind |-> "Str", text |-> text]
EnvMacro(var) == [kind |-> "Env", text |-> var]
LitBool(b)   == [kind |-> "Bool", text |-> IF b THEN <<116, 114, 117, 101>>
                                            ELSE <<102, 97, 108, 115, 101>>]

\* value_str of wups_meta: the text of the value expression.
value_str(value) ==
    IF value.kind = "Env" THEN env_var(value.text).val     \* unwrap_or_default()
    ELSE value.text

\* wups_meta!(name, value) with the terminator left out of the format.
wups_meta_unterminated(name, value) ==
    <<Item(<<119, 117, 112, 115, 95, 109, 101, 116, 97, 95>> \o name, ".wups.meta",
           name \o <<61>> \o value_str(value))>>

\* wups_meta!(name, value) of the macros crate: format!("{}={}\0", name,
\* value_str) as a byte array named wups_meta_<name> in .wups.meta.
wups_meta(name, value) ==
    <<Item(<<119, 117, 112, 115, 95, 109, 101, 116, 97, 95>> \o name, ".wups.meta",
           name \o <<61>> \o value_str(value) \o <<0>>)>>

\* The `wups` record WUPS_PLUGIN_NAME! builds by hand from WUPS_VERSION_STR.
wups_meta_wups(WUPS_VERSION_STR) ==
    LET bytes == WUPS_VERSION_STR \o <<0>>          \* to_bytes_with_nul()
        N     == Len(bytes) + 5
        array == [i \in 1..N |->
                    IF i <= 5 THEN <<119, 117, 112, 115, 61>>[i] ELSE bytes[i - 5]]
    IN  <<Item(<<119, 117, 112, 115, 95, 109, 101, 116, 97, 95, 119, 117, 112, 115>>,
               ".wups.meta", array)>>

\* wups_meta!(id, value) of src/macros.rs (macro_rules). The body is
\* wups_section!("meta"); #[used] static $id ..., and wups_section! expands
\* to an attribute alone: the compiler rejects every invocation, so none
\* leaves a record.
macros_wups_meta(id, value) ==
    <<Rejected("expected item after attributes")>>

\* function_hook with the entry's call_addr pointing at the wrapper instead
\* of the slot.
function_hook_misaddressed(module, function, my_func) ==
    LET real_func   == <<114, 101, 97, 108, 95>> \o function
        loader_name == <<119, 117, 112, 115, 95, 108, 111, 97, 100, 101, 114, 95>> \o my_func
    IN  << Item(real_func, ".data", [type_ |-> "Option<fn>", target |-> <<>>]),
           Item(my_func, ".text", [type_ |-> "fn", target |-> <<my_func>>]),
           Item(loader_name, ".wups.load",
                [type_            |-> "WUPS_LOADER_ENTRY_FUNCTION_MANDATORY",
                 name             |-> function \o <<0>>,
                 library          |-> module,
                 my_function_name |-> my_func \o <<0>>,
                 target           |-> my_func,
                 call_addr        |-> my_func,
                 targetProcess    |-> "WUPS_FP_TARGET_PROCESS_GAME_AND_MENU"]) >>

\* An extern "C" fn the macros emit, with the statements of its body.
Fn(symbol, body) ==
    Item(symbol, ".text", [type_ |-> "fn", target |-> <<symbol>>, body |-> body])

\* A call of an external function; OSFatal of a static unless the
\* thread-specific value under `key` is `expected`.
CallStmt(fn) == [stmt |-> "call", fn |-> fn, key |-> 0, expected |-> 0]
FatalUnlessStmt(key, expected, msg) ==
    [stmt |-> "fatal_unless", fn |-> msg, key |-> key, expected |-> expected]

\* The body of __init_wrapper without the check of the linking order.
init_wrapper_unchecked ==
    <<CallStmt(<<95, 95, 105, 110, 105, 116>>)>>

\* The body of __init_wrapper.
init_wrapper ==
    <<FatalUnlessStmt(322376503, 1111638594,
                      <<119, 117, 112, 115, 95, 109, 101, 116, 97, 95, 105, 110, 102,
                        111, 95, 108, 105, 110, 107, 105, 110, 103, 95, 111, 114, 100,
                        101, 114>>),
      CallStmt(<<95, 95, 105, 110, 105, 116>>)>>

\* The text of the linking-order diagnostic for the plugin `name`.
linking_order(name) ==
    <<76, 111, 97, 100, 105, 110, 103, 32, 34>> \o name
    \o <<34, 32, 102, 97, 105, 108, 101, 100, 46, 10, 70, 117, 110, 99, 116, 105, 111,
         110, 32, 34, 119, 117, 116, 95, 103, 101, 116, 95, 116, 104, 114, 101, 97, 100,
         95, 115, 112, 101, 99, 105, 102, 105, 99, 34, 32, 114, 101, 116, 117, 114, 110,
         101, 100, 32, 117, 110, 101, 120, 112, 101, 99, 116, 101, 100, 32, 118, 97, 108,
         117, 101, 46, 10, 80, 108, 101, 97, 115, 101, 32, 99, 104, 101, 99, 107, 32,
         108, 105, 110, 107, 105, 110, 103, 32, 111, 114, 100, 101, 114, 32, 40, 101,
         120, 112, 101, 99, 116, 101, 100, 32, 34, 45, 108, 119, 117, 112, 115, 32, 45,
         108, 119, 117, 116, 34, 41>>

\* An extern "C" fn the macro emits without #[no_mangle]: its symbol is
\* local to the crate, its name still one name of the crate.
LocalFn(symbol, body) ==
    Item(symbol, ".text", [type_ |-> "fn", target |-> <<symbol>>, body |-> body,
                           no_mangle |-> FALSE])

\* let s = fn(args); panic!(text, ..) unless s is `expected`.
PanicUnlessStmt(fn, expected, text) ==
    [stmt |-> "panic_unless", fn |-> fn, key |-> 0, expected |-> expected, text |-> text]

\* The body of init_storage.
init_storage ==
    <<PanicUnlessStmt(<<87, 85, 80, 83, 83, 116, 111, 114, 97, 103, 101, 65, 80, 73, 95, 73, 110,
                      105, 116, 73, 110, 116, 101, 114, 110, 97, 108>>,
                      WUPS_STORAGE_ERROR_SUCCESS,
                      <<83, 116, 111, 114, 97, 103, 101, 32, 105, 110, 105, 116, 105, 97, 108,
                      105, 122, 97, 116, 105, 111, 110, 32, 102, 97, 105, 108, 101, 100, 58,
                      32>>)>>

\* The text of the info_dump record.
info_dump(name, buildtimestamp) ==
    <<40, 112, 108, 117, 103, 105, 110, 58, 32>> \o name
    \o <<59, 32, 119, 117, 112, 115, 58, 32>>
    \o <<48, 46, 56, 46, 49>>
    \o <<59, 32, 98, 117, 105, 108, 100, 116, 105, 109, 101, 58, 32>> \o buildtimestamp \o <<41>>

\* What WUPS_PLUGIN_NAME!(name) emits, in the order of the source: the
\* metadata records of the crate, the `wups` record, the init and fini hooks
\* of the five WUT regions, the wrappers of __init and __fini with their
\* hooks, the config and the storage init hook, the plugin's name and the
\* info_dump and linking-order records. WUPS_VERSION_STR is the constant of
\* the bindings, buildtimestamp the formatted time of the expansion.
WUPS_PLUGIN_NAME(name, WUPS_VERSION_STR, buildtimestamp) ==
    <<>>
        \o wups_meta(<<110, 97, 109, 101>>,
                     LitStr(name))
        \o wups_meta(<<100, 101, 115, 99, 114, 105, 112, 116, 105, 111, 110>>,
                     EnvMacro(CARGO_PKG_DESCRIPTION))
        \o wups_meta(<<118, 101, 114, 115, 105, 111, 110>>,
                     EnvMacro(CARGO_PKG_VERSION))
        \o wups_meta(<<97, 117, 116, 104, 111, 114>>,
                     EnvMacro(CARGO_PKG_AUTHORS))
        \o wups_meta(<<108, 105, 99, 101, 110, 115, 101>>,
                     EnvMacro(CARGO_PKG_LICENSE))
        \o wups_meta(<<98, 117, 105, 108, 100, 116, 105, 109, 101, 115, 116, 97, 109, 112>>,
                     LitStr(buildtimestamp))
        \o wups_meta_wups(WUPS_VERSION_STR)
        \o <<Fn(<<111, 110, 95, 105, 110, 105, 116, 95, 119, 117, 116, 95, 109, 97, 108, 108,
                111, 99>>,
                <<CallStmt(<<95, 95, 105, 110, 105, 116, 95, 119, 117, 116, 95, 109, 97, 108,
                           108, 111, 99>>)>>),
              Fn(<<111, 110, 95, 102, 105, 110, 105, 95, 119, 117, 116, 95, 109, 97, 108, 108,
                111, 99>>,
                <<CallStmt(<<95, 95, 102, 105, 110, 105, 95, 119, 117, 116, 95, 109, 97, 108,
                           108, 111, 99>>)>>)>>
        \o wups_hook_ex("INIT_WUT_MALLOC", <<<<111, 110, 95, 105, 110, 105, 116, 95, 119, 117, 116, 95, 109,
                                97, 108, 108, 111, 99>>>>)
        \o wups_hook_ex("FINI_WUT_MALLOC", <<<<111, 110, 95, 102, 105, 110, 105, 95, 119, 117, 116, 95, 109,
                                97, 108, 108, 111, 99>>>>)
        \o <<Fn(<<111, 110, 95, 105, 110, 105, 116, 95, 119, 117, 116, 95, 115, 111, 99, 107,
                101, 116, 115>>,
                <<CallStmt(<<95, 95, 105, 110, 105, 116, 95, 119, 117, 116, 95, 115, 111, 99,
                           107, 101, 116>>)>>),
              Fn(<<111, 110, 95, 102, 105, 110, 105, 95, 119, 117, 116, 95, 115, 111, 99, 107,
                101, 116, 115>>,
                <<CallStmt(<<95, 95, 102, 105, 110, 105, 95, 119, 117, 116, 95, 115, 111, 99,
                           107, 101, 116>>)>>)>>
        \o wups_hook_ex("INIT_WUT_SOCKETS", <<<<111, 110, 95, 105, 110, 105, 116, 95, 119, 117, 116, 95, 115,
                                111, 99, 107, 101, 116, 115>>>>)
        \o wups_hook_ex("FINI_WUT_SOCKETS", <<<<111, 110, 95, 102, 105, 110, 105, 95, 119, 117, 116, 95, 115,
                                111, 99, 107, 101, 116, 115>>>>)
        \o <<Fn(<<111, 110, 95, 105, 110, 105, 116, 95, 119, 117, 116, 95, 110, 101, 119, 108,
                105, 98>>,
                <<CallStmt(<<95, 95, 105, 110, 105, 116, 95, 119, 117, 116, 95, 110, 101, 119,
                           108, 105, 98>>)>>),
              Fn(<<111, 110, 95, 102, 105, 110, 105, 95, 119, 117, 116, 95, 110, 101, 119, 108,
                105, 98>>,
                <<CallStmt(<<95, 95, 102, 105, 110, 105, 95, 119, 117, 116, 95, 110, 101, 119,
                           108, 105, 98>>)>>)>>
        \o wups_hook_ex("INIT_WUT_NEWLIB", <<<<111, 110, 95, 105, 110, 105, 116, 95, 119, 117, 116, 95, 110,
                                101, 119, 108, 105, 98>>>>)
        \o wups_hook_ex("FINI_WUT_NEWLIB", <<<<111, 110, 95, 102, 105, 110, 105, 95, 119, 117, 116, 95, 110,
                                101, 119, 108, 105, 98>>>>)
        \o <<Fn(<<111, 110, 95, 105, 110, 105, 116, 95, 119, 117, 116, 95, 115, 116, 100, 99,
                112, 112>>,
                <<CallStmt(<<95, 95, 105, 110, 105, 116, 95, 119, 117, 116, 95, 115, 116, 100,
                           99, 112, 112>>)>>),
              Fn(<<111, 110, 95, 102, 105, 110, 105, 95, 119, 117, 116, 95, 115, 116, 100, 99,
                112, 112>>,
                <<CallStmt(<<95, 95, 102, 105, 110, 105, 95, 119, 117, 116, 95, 115, 116, 100,
                           99, 112, 112>>)>>)>>
        \o wups_hook_ex("INIT_WUT_STDCPP", <<<<111, 110, 95, 105, 110, 105, 116, 95, 119, 117, 116, 95, 115,
                                116, 100, 99, 112, 112>>>>)
        \o wups_hook_ex("FINI_WUT_STDCPP", <<<<111, 110, 95, 102, 105, 110, 105, 95, 119, 117, 116, 95, 115,
                                116, 100, 99, 112, 112>>>>)
        \o <<Fn(<<111, 110, 95, 105, 110, 105, 116, 95, 119, 117, 116, 95, 100, 101, 118, 111,
                112, 116, 97, 98>>,
                <<CallStmt(<<95, 95, 105, 110, 105, 116, 95, 119, 117, 116, 95, 115, 116, 100,
                           99, 112, 112>>)>>),
              Fn(<<111, 110, 95, 102, 105, 110, 105, 95, 119, 117, 116, 95, 100, 101, 118, 111,
                112, 116, 97, 98>>,
                <<CallStmt(<<95, 95, 102, 105, 110, 105, 95, 119, 117, 116, 95, 115, 116, 100,
                           99, 112, 112>>)>>)>>
        \o wups_hook_ex("INIT_WUT_DEVOPTAB", <<<<111, 110, 95, 105, 110, 105, 116, 95, 119, 117, 116, 95, 100,
                                101, 118, 111, 112, 116, 97, 98>>>>)
        \o wups_hook_ex("FINI_WUT_DEVOPTAB", <<<<111, 110, 95, 102, 105, 110, 105, 95, 119, 117, 116, 95, 100,
                                101, 118, 111, 112, 116, 97, 98>>>>)
        \o <<Fn(<<95, 95, 105, 110, 105, 116, 95, 119, 114, 97, 112, 112, 101, 114>>,
                init_wrapper),
              Fn(<<95, 95, 102, 105, 110, 105, 95, 119, 114, 97, 112, 112, 101, 114>>,
                <<CallStmt(<<95, 95, 102, 105, 110, 105>>)>>)>>
        \o wups_hook_ex("INIT_WRAPPER", <<<<95, 95, 105, 110, 105, 116, 95, 119, 114, 97, 112, 112, 101,
                                114>>>>)
        \o wups_hook_ex("FINI_WRAPPER", <<<<95, 95, 102, 105, 110, 105, 95, 119, 114, 97, 112, 112, 101,
                                114>>>>)
        \o <<Fn(<<119, 117, 112, 115, 95, 105, 110, 105, 116, 95, 99, 111, 110, 102, 105, 103,
                95, 102, 117, 110, 99, 116, 105, 111, 110, 115>>,
                <<CallStmt(<<87, 85, 80, 83, 67, 111, 110, 102, 105, 103, 65, 80, 73, 95, 73,
                           110, 105, 116, 76, 105, 98, 114, 97, 114, 121, 95, 73, 110, 116, 101,
                           114, 110, 97, 108>>)>>)>>
        \o wups_hook_ex("INIT_CONFIG", <<<<119, 117, 112, 115, 95, 105, 110, 105, 116, 95, 99, 111, 110,
                                102, 105, 103, 95, 102, 117, 110, 99, 116, 105, 111, 110, 115>>>>)
        \o wups_meta(<<115, 116, 111, 114, 97, 103, 101, 95, 105, 100>>,
                     LitStr(name))
        \o <<LocalFn(<<105, 110, 105, 116, 95, 115, 116, 111, 114, 97, 103, 101>>,
                init_storage)>>
        \o wups_hook_ex("INIT_STORAGE", <<<<105, 110, 105, 116, 95, 115, 116, 111, 114, 97, 103, 101>>>>)
        \o <<Item(<<119, 117, 112, 115, 95, 109, 101, 116, 97, 95, 112, 108, 117, 103, 105, 110,
                95, 110, 97, 109, 101>>,
                ".wups.meta", name \o <<0>>),
              Item(<<80, 76, 85, 71, 73, 78, 95, 78, 65, 77, 69>>, ".rodata",
                   [type_ |-> "&str", text |-> name, no_mangle |-> FALSE])>>
        \o wups_meta(<<105, 110, 102, 111, 95, 100, 117, 109, 112>>,
                     LitStr(info_dump(name, buildtimestamp)))
        \o wups_meta(<<105, 110, 102, 111, 95, 108, 105, 110, 107, 105, 110, 103, 95, 111, 114,
                     100, 101, 114>>,
                     LitStr(linking_order(name)))

\* The text C code reads at a static: its bytes before the first NUL (all of
\* them when there is none).
UntilNul(bytes) ==
    IF HasNul(bytes)
    THEN SubSeq(bytes, 1, (CHOOSE i \in 1..Len(bytes) :
                              bytes[i] = 0 /\ \A j \in 1..(i - 1) : bytes[j] # 0) - 1)
    ELSE bytes

\* OSFatal(msg): the host shows the message and halts the process.
OSFatal(msg) == [fn |-> <<79, 83, 70, 97, 116, 97, 108>>, msg |-> UntilNul(msg)]

\* One external function called (msg: the text handed to it, if any).
ExternCall(fn) == [fn |-> fn, msg |-> <<>>]

\* One host function called that answered `status`.
HostCall(fn, status) == [fn |-> fn, msg |-> <<>>, status |-> status]

\* Running a body: the external calls made, whether the process was halted
\* (by OSFatal or by a panic) and with what message. `host` is what the host
\* answers (tls: wut_get_thread_specific, status: WUPSStorageAPI_InitInternal)
\* and the version in the loader's arguments, `items` the image the statics
\* are read from.
RECURSIVE Exec(_, _, _)
Exec(body, host, items) ==
    IF body = <<>> THEN [calls |-> <<>>, fatal |-> FALSE, msg |-> <<>>]
    ELSE LET s == Head(body)
             Then(r, c) == [calls |-> <<c>> \o r.calls, fatal |-> r.fatal, msg |-> r.msg]
             Fatal(c)   == [calls |-> <<c>>, fatal |-> TRUE, msg |-> c.msg]
         IN  IF s.stmt = "call" THEN Then(Exec(Tail(body), host, items), ExternCall(s.fn))
             ELSE IF s.stmt = "panic_unless"
             THEN IF host.status # s.expected
                  THEN [calls |-> <<HostCall(s.fn, host.status)>>, fatal |-> TRUE,
                        msg   |-> [text    |-> s.text,
                                   error   |-> StorageError_try_from(host.status),
                                   version |-> host.version]]
                  ELSE Then(Exec(Tail(body), host, items), HostCall(s.fn, host.status))
             ELSE IF host.tls # s.expected
             THEN LET i == CHOOSE i \in 1..Len(items) : items[i].symbol = s.fn
                  IN  Fatal(OSFatal(items[i].value))
             ELSE Exec(Tail(body), host, items)

\* The runtime pieces initialised after the external calls `calls`:
\* __init<piece> marks <piece>, __fini<piece> unmarks it.
RECURSIVE InitializedAfter(_, _)
InitializedAfter(init, calls) ==
    IF calls = <<>> THEN init
    ELSE LET fn    == Head(calls).fn
             piece == SubSeq(fn, 7, Len(fn))
             kind  == SubSeq(fn, 1, 6)
         IN  InitializedAfter(IF kind = <<95, 95, 105, 110, 105, 116>> THEN init \cup {piece}
                              ELSE IF kind = <<95, 95, 102, 105, 110, 105>> THEN init \ {piece}
                              ELSE init,
                              Tail(calls))

\* #[function_hook(module = ..., function = ...)] on `fn my_func`: the slot
\* for the original's address (None until the loader fills it), the wrapper
\* and the entry of the interception table.
function_hook(module, function, my_func) ==
    LET real_func   == <<114, 101, 97, 108, 95>> \o function
        loader_name == <<119, 117, 112, 115, 95, 108, 111, 97, 100, 101, 114, 95>> \o my_func
    IN  << Item(real_func, ".data", [type_ |-> "Option<fn>", target |-> <<>>]),
           Item(my_func, ".text", [type_ |-> "fn", target |-> <<my_func>>]),
           Item(loader_name, ".wups.load",
                [type_            |-> "WUPS_LOADER_ENTRY_FUNCTION_MANDATORY",
                 name             |-> function \o <<0>>,
                 library          |-> module,
                 my_function_name |-> my_func \o <<0>>,
                 target           |-> my_func,
                 call_addr        |-> real_func,
                 targetProcess    |-> "WUPS_FP_TARGET_PROCESS_GAME_AND_MENU"]) >>

\* A panic carrying a message.
PanicWith(msg) == [Panic EXCEPT !.val = msg]

\* The body of the wrapper that leaves the slot's check out.
function_hook_wrapper_unchecked(function, filled, ret) ==
    [res |-> Ok(ret), body |-> TRUE]

\* The wrapper function_hook emits: it unwraps the slot with expect(), then
\* runs the user's block, which returns `ret`.
function_hook_wrapper(function, filled, ret) ==
    IF ~filled
    THEN [res  |-> PanicWith(<<84, 104, 101, 32, 102, 117, 110, 99, 116, 105, 111, 110, 32, 34>>
                             \o function
                             \o <<34, 32, 119, 97, 115, 32, 110, 111, 116, 32, 112, 114, 111,
                                  112, 101, 114, 108, 121, 32, 104, 111, 111, 107, 101, 100, 46>>),
          body |-> FALSE]
    ELSE [res |-> Ok(ret), body |-> TRUE]

(***************************************************************************)
(* Inputs the model draws from                                             *)
(***************************************************************************)
KeyA   == <<97>>
KeyB   == <<98>>
KeyNul == <<97, 0, 98>>         \* a key with an embedded NUL byte

HostKeys == {KeyA, KeyB}
Names    == HostKeys \cup {KeyNul}

\* Statuses the host may fail a storage call with (0: it serves the call).
HostFaults == {0, WUPS_STORAGE_ERROR_IO_ERROR, WUPS_STORAGE_ERROR_INTERNAL_NOT_INITIALIZED}
IoFaults   == {0, WUPS_STORAGE_ERROR_IO_ERROR}

FixedTypes == {"bool", "i32", "i64", "u32", "u64"}
Types      == FixedTypes \cup {"String", "Vec<u8>"}

Values(T) ==
    CASE T = "bool"    -> {<<0>>, <<1>>}
      [] T = "i32"     -> {<<128, 0, 0, 0>>}
      [] T = "i64"     -> {<<255, 255, 255, 255, 255, 255, 255, 214>>}
      [] T = "u32"     -> {<<255, 255, 255, 255>>}
      [] T = "u64"     -> {<<0, 0, 0, 0, 0, 0, 1, 164>>}
      [] T = "String"  -> {<<>>, <<72, 105>>, <<72, 0, 105>>, <<72, 105, 0>>, <<195, 169>>,
                           Fill(STORAGE_MAX_LENGTH - 2, 65),
                           Fill(STORAGE_MAX_LENGTH - 1, 65), Fill(STORAGE_MAX_LENGTH, 65)}
      [] T = "Vec<u8>" -> {<<0, 255>>, Fill(STORAGE_MAX_LENGTH - 1, 7),
                           Fill(STORAGE_MAX_LENGTH, 7)}

\* The text and binary types are exercised on one key, next to one
\* fixed-width type.
TextTypes == {"String", "Vec<u8>", "bool"}
TextNames == {KeyA, KeyNul}

(***************************************************************************)
(* State machine                                                           *)
(***************************************************************************)
Never == [state |-> "never", ty |-> "", val |-> <<>>]

\* A call into the plugin API: the operation, its type parameter, key and
\* value arguments, the menu item it was made on (attach), its result and
\* the host calls it made, in order, each with the status the host returned.
Call(op, ty, key, val, args, res, calls) ==
    [op |-> op, ty |-> ty, key |-> key, val |-> val, args |-> args,
     res |-> res, calls |-> calls]

Init ==
    /\ storage = [k \in HostKeys |-> NoItem]
    /\ menu = <<>>
    /\ last = Call("none", "", <<>>, <<>>, <<>>, Ok(Unit), <<>>)
    /\ panicked = FALSE
    /\ debug_assertions \in BOOLEAN
    /\ written = [k \in HostKeys |-> Never]
    /\ image = <<>>
    /\ slots = <<>>
    /\ initialized = {}
    /\ registered = <<>>
    /\ categories = <<>>
    /\ owned = {}

\* storage::load::<T>(name)
Load(T, name, fault) ==
    \E o \in {load(T, name, fault, storage, debug_assertions)} :
        /\ ~panicked
        /\ last' = Call("load", T, name, <<>>, <<>>, o.res, o.calls)
        /\ panicked' = (o.res.tag = "Panic")
        /\ storage' = o.st
        /\ UNCHANGED <<initialized, categories, owned, menu, debug_assertions, written, image, slots, registered>>

\* storage::load_or_default::<T>(name)
LoadOrDefault(T, name, fault) ==
    \E o \in {load_or_default(T, name, fault, storage, debug_assertions)} :
        /\ ~panicked
        /\ last' = Call("load_or_default", T, name, <<>>, <<>>, o.res, o.calls)
        /\ panicked' = (o.res.tag = "Panic")
        /\ storage' = o.st
        /\ UNCHANGED <<initialized, categories, owned, menu, debug_assertions, written, image, slots, registered>>

\* storage::store::<T>(name, value)
Store(T, name, value, fault) ==
    \E o \in {store(T, name, value, fault, storage)} :
        /\ ~panicked
        /\ last' = Call("store", T, name, value, <<>>, o.res, o.calls)
        /\ storage' = o.st
        /\ written' = IF o.res.tag = "Ok"
                      THEN [written EXCEPT ![name] = [state |-> "stored", ty |-> T, val |-> value]]
                      ELSE written
        /\ UNCHANGED <<initialized, categories, owned, menu, panicked, debug_assertions, image, slots, registered>>

\* storage::delete(name)
Delete(name, fault) ==
    \E o \in {delete(name, fault, storage)} :
        /\ ~panicked
        /\ last' = Call("delete", "", name, <<>>, <<>>, o.res, o.calls)
        /\ storage' = o.st
        /\ written' = IF o.res.tag = "Ok"
                      THEN [written EXCEPT ![name] = [state |-> "deleted", ty |-> "", val |-> <<>>]]
                      ELSE written
        /\ UNCHANGED <<initialized, categories, owned, menu, panicked, debug_assertions, image, slots, registered>>

\* storage::reset()
Reset(fault) ==
    \E o \in {reset(fault, storage)} :
        /\ ~panicked
        /\ last' = Call("reset", "", <<>>, <<>>, <<>>, o.res, o.calls)
        /\ storage' = o.st
        /\ written' = IF o.res.tag = "Ok"
                      THEN [k \in HostKeys |->
                              IF written[k].state = "never" THEN Never
                              ELSE [state |-> "wiped", ty |-> "", val |-> <<>>]]
                      ELSE written
        /\ UNCHANGED <<initialized, categories, owned, menu, panicked, debug_assertions, image, slots, registered>>

\* storage::reload()
Reload(fault) ==
    \E o \in {reload(fault, storage)} :
        /\ ~panicked
        /\ last' = Call("reload", "", <<>>, <<>>, <<>>, o.res, o.calls)
        /\ storage' = o.st
        /\ UNCHANGED <<initialized, categories, owned, menu, panicked, debug_assertions, written, image, slots, registered>>

\* storage::save(force)
Save(force, fault) ==
    \E o \in {save(force, fault, storage)} :
        /\ ~panicked
        /\ last' = Call("save", "", <<>>, BoolToBytes(force), <<>>, o.res, o.calls)
        /\ storage' = o.st
        /\ UNCHANGED <<initialized, categories, owned, menu, panicked, debug_assertions, written, image, slots, registered>>

Next ==
    \/ \E T \in FixedTypes, name \in Names, fault \in IoFaults : Load(T, name, fault)
    \/ \E T \in FixedTypes, name \in Names, fault \in IoFaults : LoadOrDefault(T, name, fault)
    \/ \E T \in FixedTypes, name \in Names, fault \in IoFaults :
          \E value \in Values(T) : Store(T, name, value, fault)
    \/ \E name \in Names, fault \in IoFaults : Delete(name, fault)
    \/ \E fault \in IoFaults : Reset(fault)
    \/ \E fault \in IoFaults : Reload(fault)
    \/ \E force \in BOOLEAN, fault \in IoFaults : Save(force, fault)

\* The storage API on the fixed-width types.
Spec == Init /\ [][Next]_vars

NextText ==
    \/ \E T \in TextTypes, name \in TextNames, fault \in HostFaults : Load(T, name, fault)
    \/ \E T \in TextTypes, name \in TextNames, fault \in HostFaults :
          LoadOrDefault(T, name, fault)
    \/ \E T \in TextTypes, name \in TextNames, fault \in HostFaults :
          \E value \in Values(T) : Store(T, name, value, fault)
    \/ \E name \in TextNames, fault \in HostFaults : Delete(name, fault)
    \/ \E fault \in HostFaults : Reset(fault)

\* The storage API on the text and binary types.
SpecText == Init /\ [][NextText]_vars

\* Every status of the host's protocol, the unnamed negative codes around
\* the named ones, the ends of i32 and the positive codes (outside the
\* protocol: the host is taken to have done nothing).
StatusCodes ==
    {0, 1, 2147483647} \cup (-8..-1) \cup (-242..-239) \cup {-2147483647 - 1}
StatusTypes == {"i32", "Vec<u8>"}

NextStatus ==
    \/ \E T \in StatusTypes, fault \in StatusCodes : Load(T, KeyA, fault)
    \/ \E T \in StatusTypes, fault \in StatusCodes :
          \E value \in {<<0, 0, 0, 7>>} : Store(T, KeyA, value, fault)
    \/ \E fault \in StatusCodes : Delete(KeyA, fault)
    \/ \E fault \in StatusCodes : Reset(fault)
    \/ \E fault \in StatusCodes : Reload(fault)
    \/ \E force \in BOOLEAN, fault \in StatusCodes : Save(force, fault)

\* The storage API under every status the host can answer with.
SpecStatus == Init /\ [][NextStatus]_vars

(***************************************************************************)
(* Config menu: inputs                                                     *)
(***************************************************************************)
Text    == <<84>>
TextNul == <<84, 0, 84>>        \* display text with an embedded NUL byte

Toggles ==
    {Toggle_new(Text, KeyA, TRUE, Text, Text), Toggle_new(Text, KeyB, FALSE, Text, Text)}
    \cup {Toggle_new(TextNul, KeyA, TRUE, Text, Text),
          Toggle_new(Text, KeyNul, TRUE, Text, Text),
          Toggle_new(Text, KeyA, TRUE, TextNul, Text),
          Toggle_new(Text, KeyA, TRUE, Text, TextNul)}

\* Arguments of Range::new: <<text, id, default, min, max>>; default 2
\* violates default < max.
RangeArgs ==
    {<<Text, KeyA, 0, -1, 1>>, <<Text, KeyA, 2, -1, 1>>,
     <<TextNul, KeyA, 0, -1, 1>>, <<Text, KeyNul, 0, -1, 1>>}

Options    == <<<<65>>, <<66>>>>
OptionsNul == <<<<65>>, <<66, 0>>>>

\* Arguments of Select::new: <<text, id, default, options>>; default 2 is
\* not an index of the options.
SelectArgs ==
    {<<Text, KeyA, 0, Options>>, <<Text, KeyA, 1, Options>>, <<Text, KeyA, 2, Options>>,
     <<Text, KeyA, 0, OptionsNul>>, <<TextNul, KeyA, 0, Options>>,
     <<Text, KeyNul, 0, Options>>}

\* Values the plugin stores under a menu item's id on its own.
ConfigValues(T) ==
    CASE T = "bool" -> {<<0>>, <<1>>}
      [] T = "i32"  -> {I32ToBytes(-2), I32ToBytes(2)}
      [] T = "u32"  -> {U32ToBytes(2), <<255, 255, 255, 255>>}

ConfigTypes == {"bool", "i32", "u32"}

ConfigStatuses == {WUPSCONFIG_API_RESULT_SUCCESS, WUPSCONFIG_API_RESULT_OUT_OF_MEMORY}

\* <<fault of the load, fault of the store, status of the add>> the host
\* answers an attach with. The store is reached only after the load was
\* answered; an attach given a text with a NUL byte returns before any host
\* call, so the host's answers are not varied for it.
HostAnswers(texts) ==
    IF \E i \in 1..Len(texts) : HasNul(texts[i])
    THEN {<<0, 0, WUPSCONFIG_API_RESULT_SUCCESS>>}
    ELSE {<<f[1], f[2], status>> :
            f \in {<<0, 0>>, <<WUPS_STORAGE_ERROR_IO_ERROR, 0>>,
                   <<0, WUPS_STORAGE_ERROR_IO_ERROR>>},
            status \in ConfigStatuses}

(***************************************************************************)
(* Config menu: actions                                                    *)
(***************************************************************************)
\* `written` after an operation that made the host calls `calls`.
WrittenAfter(T, calls) ==
    IF \E i \in 1..Len(calls) : /\ calls[i].fn = "WUPSStorageAPI_StoreItem"
                                /\ calls[i].status >= 0
    THEN LET i == CHOOSE i \in 1..Len(calls) : /\ calls[i].fn = "WUPSStorageAPI_StoreItem"
                                               /\ calls[i].status >= 0
         IN  [written EXCEPT ![calls[i].key] =
                 [state |-> "stored", ty |-> T, val |-> calls[i].data]]
    ELSE written

\* root.add(Toggle::new(..)): attach of a Toggle to the root category.
AttachToggle(self, loadFault, storeFault, status) ==
    \E o \in {Toggle_attach(self, RootHandle, loadFault, storeFault, status,
                            storage, menu, debug_assertions)} :
        /\ ~panicked
        /\ Len(menu) < MaxItems
        /\ last' = Call("Toggle::attach", "bool", self.id, <<>>, self, o.res, o.calls)
        /\ panicked' = (o.res.tag = "Panic")
        /\ storage' = o.st
        /\ menu' = o.m
        /\ written' = WrittenAfter("bool", o.calls)
        /\ UNCHANGED <<initialized, categories, owned, debug_assertions, image, slots, registered>>

\* root.add(Range::new(..)): construction and attach of a Range.
AttachRange(text, id, default, min, max, loadFault, storeFault, status) ==
    \E self \in {Range_new(text, id, default, min, max, debug_assertions)} :
    \E o \in {IF self.ok
              THEN Range_attach(self, RootHandle, loadFault, storeFault, status,
                                storage, menu, debug_assertions)
              ELSE MenuOutcome(Panic, <<>>, storage, menu)} :
        /\ ~panicked
        /\ Len(menu) < MaxItems
        /\ last' = Call("Range::attach", "i32", id, <<>>, self, o.res, o.calls)
        /\ panicked' = (o.res.tag = "Panic")
        /\ storage' = o.st
        /\ menu' = o.m
        /\ written' = WrittenAfter("i32", o.calls)
        /\ UNCHANGED <<initialized, categories, owned, debug_assertions, image, slots, registered>>

\* root.add(Select::new(..)): construction and attach of a Select.
AttachSelect(text, id, default, options, loadFault, storeFault, status) ==
    \E self \in {Select_new(text, id, default, options, debug_assertions)} :
    \E o \in {IF self.ok
              THEN Select_attach(self, RootHandle, loadFault, storeFault, status,
                                 storage, menu, debug_assertions)
              ELSE MenuOutcome(Panic, <<>>, storage, menu)} :
        /\ ~panicked
        /\ Len(menu) < MaxItems
        /\ last' = Call("Select::attach", "u32", id, <<>>, self, o.res, o.calls)
        /\ panicked' = (o.res.tag = "Panic")
        /\ storage' = o.st
        /\ menu' = o.m
        /\ written' = WrittenAfter("u32", o.calls)
        /\ UNCHANGED <<initialized, categories, owned, debug_assertions, image, slots, registered>>

\* The host reports a change of the i-th item: it calls the callback given at
\* attach with the item and a value of the item's widget.
CallbackToggleChanged(i, value, fault) ==
    \E o \in {callback_toggle_changed(menu[i], value, fault, storage)} :
        /\ ~panicked
        /\ menu[i].callback = "_callback_toggle_changed"
        /\ last' = Call("_callback_toggle_changed", "bool", menu[i].identifier,
                        BoolToBytes(value), <<>>, o.res, o.calls)
        /\ storage' = o.st
        /\ written' = WrittenAfter("bool", o.calls)
        /\ UNCHANGED <<initialized, categories, owned, menu, panicked, debug_assertions, image, slots, registered>>

CallbackRangeChanged(i, value, fault) ==
    \E o \in {callback_range_changed(menu[i], value, fault, storage)} :
        /\ ~panicked
        /\ menu[i].callback = "_callback_range_changed"
        /\ value >= menu[i].lo /\ value <= menu[i].hi
        /\ last' = Call("_callback_range_changed", "i32", menu[i].identifier,
                        I32ToBytes(value), <<>>, o.res, o.calls)
        /\ storage' = o.st
        /\ written' = WrittenAfter("i32", o.calls)
        /\ UNCHANGED <<initialized, categories, owned, menu, panicked, debug_assertions, image, slots, registered>>

CallbackSelectChanged(i, index, fault) ==
    \E o \in {callback_select_changed(menu[i], index, fault, storage)} :
        /\ ~panicked
        /\ menu[i].callback = "_callback_select_changed"
        /\ index >= menu[i].lo /\ index <= menu[i].hi
        /\ last' = Call("_callback_select_changed", "u32", menu[i].identifier,
                        U32ToBytes(index), <<>>, o.res, o.calls)
        /\ storage' = o.st
        /\ written' = WrittenAfter("u32", o.calls)
        /\ UNCHANGED <<initialized, categories, owned, menu, panicked, debug_assertions, image, slots, registered>>

\* ConfigMenu::_close_callback: the host closes the menu and discards the
\* category tree; the callback's body is empty.
CloseCallback ==
    /\ ~panicked
    /\ menu # <<>>
    /\ last' = Call("_close_callback", "", <<>>, <<>>, <<>>, Ok(Unit), <<>>)
    /\ menu' = <<>>
    /\ UNCHANGED <<initialized, categories, owned, storage, panicked, debug_assertions, written, image, slots, registered>>

NextConfig ==
    \/ \E self \in Toggles :
          \E h \in HostAnswers(<<self.text, self.id, self.true_value, self.false_value>>) :
             AttachToggle(self, h[1], h[2], h[3])
    \/ \E a \in RangeArgs : \E h \in HostAnswers(<<a[1], a[2]>>) :
          AttachRange(a[1], a[2], a[3], a[4], a[5], h[1], h[2], h[3])
    \/ \E a \in SelectArgs : \E h \in HostAnswers(<<a[1], a[2]>> \o a[4]) :
          AttachSelect(a[1], a[2], a[3], a[4], h[1], h[2], h[3])
    \/ \E i \in 1..Len(menu), value \in BOOLEAN, fault \in IoFaults :
          CallbackToggleChanged(i, value, fault)
    \/ \E i \in 1..Len(menu), value \in -1..1, fault \in IoFaults :
          CallbackRangeChanged(i, value, fault)
    \/ \E i \in 1..Len(menu), index \in 0..1, fault \in IoFaults :
          CallbackSelectChanged(i, index, fault)
    \/ CloseCallback
    \/ \E T \in ConfigTypes : \E value \in ConfigValues(T) : Store(T, KeyA, value, 0)
    \/ Delete(KeyA, 0)
    \/ Reset(0)

\* The config menu over the storage API.
SpecConfig == Init /\ [][NextConfig]_vars

(***************************************************************************)
(* Sub-menus: Menu values, their children and their attachment             *)
(***************************************************************************)
MenuTexts == {Text, TextNul}

\* The Menu value the plugin holds for handle h.
MenuOf(h) == [text |-> categories[h - RootHandle].text, handle |-> h]

\* Menu::new(text) in the open callback.
MenuNew(text, status) ==
    \E o \in {Menu_new(text, status, categories)} :
        /\ ~panicked
        /\ Len(categories) < MaxMenus
        /\ last' = Call("Menu::new", "", <<>>, <<>>, [text |-> text], o.res, o.calls)
        /\ panicked' = (o.res.tag = "Panic")
        /\ categories' = o.cats
        /\ owned' = IF o.res.tag = "Ok" THEN owned \cup {o.res.val.handle} ELSE owned
        /\ UNCHANGED <<initialized, storage, menu, debug_assertions, written, image, slots,
                       registered>>

\* parent.add(Label::new(text)): parent is the root or a Menu the plugin holds.
AddLabel(parent, text, status) ==
    \E o \in {Label_attach(Label_new(text), parent, status, storage, menu)} :
        /\ ~panicked
        /\ parent \in {RootHandle} \cup owned
        /\ Len(menu) < MaxItems
        /\ last' = Call("Label::attach", "", <<>>, <<>>, [text |-> text], o.res, o.calls)
        /\ panicked' = (o.res.tag = "Panic")
        /\ storage' = o.st
        /\ menu' = o.m
        /\ UNCHANGED <<initialized, categories, owned, debug_assertions, written, image, slots, registered>>

\* parent.add(Toggle::new(..)) for a Menu the plugin holds.
AddToggle(parent, self, status) ==
    \E o \in {Toggle_attach(self, parent, 0, 0, status, storage, menu, debug_assertions)} :
        /\ ~panicked
        /\ parent \in owned
        /\ Len(menu) < MaxItems
        /\ last' = Call("Toggle::attach", "bool", self.id, <<>>, self, o.res, o.calls)
        /\ panicked' = (o.res.tag = "Panic")
        /\ storage' = o.st
        /\ menu' = o.m
        /\ written' = WrittenAfter("bool", o.calls)
        /\ UNCHANGED <<initialized, categories, owned, debug_assertions, image, slots, registered>>

\* parent.add(sub) for a Menu `sub` the plugin holds: parent is the root or
\* another Menu it holds.
AddMenu(parent, h, status) ==
    /\ ~panicked
    /\ h \in owned
    /\ parent \in {RootHandle} \cup (owned \ {h})
    /\ Len(menu) < MaxItems
    /\ \E o \in {Menu_attach(MenuOf(h), parent, status, menu, owned)} :
          /\ last' = Call("Menu::attach", "", <<>>, <<>>, MenuOf(h), o.res, o.calls)
          /\ menu' = o.m
          /\ owned' = o.own
    /\ UNCHANGED <<initialized, categories, storage, panicked, debug_assertions, written,
                   image, slots, registered>>

\* A Menu the plugin holds goes out of scope without having been attached.
DropMenu(h) ==
    /\ ~panicked
    /\ h \in owned
    /\ owned' = owned \ {h}
    /\ UNCHANGED <<initialized, categories, storage, menu, last, panicked, debug_assertions,
                   written, image, slots, registered>>

Handles == RootHandle..CategoryHandle(MaxMenus)

NextMenu ==
    \/ \E text \in MenuTexts, status \in ConfigStatuses : MenuNew(text, status)
    \/ \E parent \in Handles, text \in MenuTexts, status \in ConfigStatuses :
          AddLabel(parent, text, status)
    \/ \E parent \in Handles, status \in ConfigStatuses :
          AddToggle(parent, Toggle_new(Text, KeyA, TRUE, Text, Text), status)
    \/ \E parent \in Handles, h \in Handles, status \in ConfigStatuses :
          AddMenu(parent, h, status)
    \/ \E h \in Handles : DropMenu(h)

\* Sub-menus in one menu session.
SpecMenu == Init /\ [][NextMenu]_vars

(***************************************************************************)
(* The config API under every status the host can answer with             *)
(***************************************************************************)
\* The statuses of the config host's protocol, unnamed codes around them,
\* a positive code and the ends of i32.
ConfigCodes ==
    {0, 1, 2147483647, -1, -2, -3, -6, -111, -112, -113, -114} \cup (-133..-127)
        \cup {-2147483647 - 1}

\* MenuError::try_from(value)?: Ok(()) or the error, as every caller of the
\* mapping returns it.
Mapped(e) == IF e.tag = "Err" THEN e ELSE Ok(Unit)

\* The mapping of config/mod.rs applied to a status.
ConfigTryFrom(value) ==
    /\ ~panicked
    /\ last' = Call("config::MenuError::try_from", "", <<>>, <<>>, [value |-> value],
                    Mapped(MenuError_try_from(value)), <<>>)
    /\ UNCHANGED <<initialized, categories, owned, storage, menu, panicked, debug_assertions, written, image,
                   slots, registered>>

\* The mapping of ui/mod.rs applied to a status.
UiTryFrom(value) ==
    /\ ~panicked
    /\ last' = Call("ui::MenuError::try_from", "", <<>>, <<>>, [value |-> value],
                    Mapped(ui_MenuError_try_from(value)), <<>>)
    /\ UNCHANGED <<initialized, categories, owned, storage, menu, panicked, debug_assertions, written, image,
                   slots, registered>>

NextMenuStatus ==
    \/ \E value \in ConfigCodes : ConfigTryFrom(value)
    \/ \E value \in ConfigCodes : UiTryFrom(value)
    \/ \E status \in ConfigCodes : MenuNew(Text, status)
    \/ \E status \in ConfigCodes : AddLabel(RootHandle, Text, status)
    \/ \E h \in Handles, status \in ConfigCodes : AddMenu(RootHandle, h, status)

\* The config API and both status mappings.
SpecMenuStatus == Init /\ [][NextMenuStatus]_vars

(***************************************************************************)
(* Every kind of item attached to the root over a changing store           *)
(***************************************************************************)
NextAttach ==
    \/ \E self \in {Toggle_new(Text, KeyA, TRUE, Text, Text)} :
          \E h \in HostAnswers(<<self.text, self.id>>) : AttachToggle(self, h[1], h[2], h[3])
    \/ \E h \in HostAnswers(<<Text, KeyA>>) :
          AttachRange(Text, KeyA, 0, -1, 1, h[1], h[2], h[3])
    \/ \E h \in HostAnswers(<<Text, KeyA>>) :
          AttachSelect(Text, KeyA, 1, Options, h[1], h[2], h[3])
    \/ \E status \in ConfigStatuses : AddLabel(RootHandle, Text, status)
    \/ MenuNew(Text, WUPSCONFIG_API_RESULT_SUCCESS)
    \/ \E h \in Handles : AddMenu(RootHandle, h, WUPSCONFIG_API_RESULT_SUCCESS)
    \/ CloseCallback
    \/ \E value \in ConfigValues("i32") : Store("i32", KeyA, value, 0)
    \/ Delete(KeyA, 0)

\* Items of every kind attached to the root category.
SpecAttach == Init /\ [][NextAttach]_vars

(***************************************************************************)
(* Texts with and without NUL bytes given to the config API                *)
(***************************************************************************)
\* ConfigMenu::init(name) in on_initialize.
ConfigMenuInit(name, status) ==
    \E o \in {ConfigMenu_init(name, status)} :
        /\ ~panicked
        /\ last' = Call("ConfigMenu::init", "", <<>>, <<>>, [name |-> name], o.res, o.calls)
        /\ panicked' = (o.res.tag = "Panic")
        /\ UNCHANGED <<initialized, categories, owned, storage, menu, debug_assertions, written,
                       image, slots, registered>>

NextTexts ==
    \/ \E name \in MenuTexts, status \in ConfigStatuses : ConfigMenuInit(name, status)
    \/ \E text \in MenuTexts, status \in ConfigStatuses : MenuNew(text, status)
    \/ \E text \in MenuTexts, status \in ConfigStatuses : AddLabel(RootHandle, text, status)
    \/ \E self \in Toggles, status \in ConfigStatuses : AttachToggle(self, 0, 0, status)
    \/ \E a \in RangeArgs, status \in ConfigStatuses :
          AttachRange(a[1], a[2], a[3], a[4], a[5], 0, 0, status)
    \/ \E a \in SelectArgs, status \in ConfigStatuses :
          AttachSelect(a[1], a[2], a[3], a[4], 0, 0, status)

\* Every constructor and attach of the config API, by the texts it is given.
SpecTexts == Init /\ [][NextTexts]_vars

(***************************************************************************)
(* The hook registry: macro expansion of the plugin crate                  *)
(***************************************************************************)
HookTypes == {"INIT_PLUGIN", "DEINIT_PLUGIN"}
FnF  == <<102>>                 \* f
FnG  == <<103>>                 \* g
ModM == <<109>>                 \* m
FnMF == <<109, 95, 95, 102>>    \* m__f
HookTargets == {<<FnF>>, <<FnG>>, <<ModM, FnF>>, <<FnMF>>}

Registration(hook_type, target) == [hook_type |-> hook_type, target |-> target]

\* wups_hook_ex!(hook_type, hook_target) written in the plugin crate.
WupsHookEx(hook_type, hook_target) ==
    /\ Len(registered) < MaxHooks
    /\ image' = image \o wups_hook_ex(hook_type, hook_target)
    /\ registered' = Append(registered, Registration(hook_type, hook_target))
    /\ UNCHANGED <<initialized, categories, owned, storage, menu, last, panicked, debug_assertions, written, slots>>

\* #[on_initialize], #[on_deinitialize], ... on `fn func`; a crate has one
\* function of a name.
HookAttribute(hook_type, func) ==
    /\ Len(registered) < MaxHooks
    /\ \A i \in 1..Len(image) : image[i].section = ".text" => image[i].symbol # func
    /\ image' = image \o generate_proc_macro_attribute(hook_type, func)
    /\ registered' = Append(registered, Registration(hook_type, <<func>>))
    /\ UNCHANGED <<initialized, categories, owned, storage, menu, last, panicked, debug_assertions, written, slots>>

NextHooks ==
    \/ \E hook_type \in HookTypes, hook_target \in HookTargets :
          WupsHookEx(hook_type, hook_target)
    \/ \E hook_type \in HookTypes, func \in {FnF, FnG} : HookAttribute(hook_type, func)

\* The hook registry.
SpecHooks == Init /\ [][NextHooks]_vars

(***************************************************************************)
(* The interception table: function hooks, the loader and hooked calls     *)
(***************************************************************************)
FnRead   == <<86, 80, 65, 68, 82, 101, 97, 100>>    \* VPADRead
FnReport == <<79, 83, 82, 101, 112, 111, 114, 116>> \* OSReport
HookedFunctions == {FnRead, FnReport}
HookedModules   == {"WUPS_LOADER_LIBRARY_VPAD", "WUPS_LOADER_LIBRARY_COREINIT"}
Returns == {<<0>>, <<1>>}

\* Addresses of original functions, as the loader resolves them.
Addresses == {268435456, 268435460}

Entries == Region(image, ".wups.load")

\* #[function_hook(module, function)] on `fn my_func` written in the crate.
FunctionHook(module, function, my_func) ==
    /\ ~panicked
    /\ Len(Entries) < MaxEntries
    /\ \A i \in 1..Len(image) : image[i].section = ".text" => image[i].symbol # my_func
    /\ image' = image \o function_hook(module, function, my_func)
    /\ UNCHANGED <<initialized, categories, owned, storage, menu, last, panicked, debug_assertions, written, slots,
                   registered>>

\* The loader, given a built image, resolves entry e and writes the original's address into the
\* slot the entry's call_addr points to.
LoaderFill(e, addr) ==
    /\ ~panicked
    /\ SymbolsDistinct(image)
    /\ e \in 1..Len(Entries)
    /\ Entries[e].call_addr \notin DOMAIN slots
    /\ slots' = [k \in DOMAIN slots \cup {Entries[e].call_addr} |->
                    IF k = Entries[e].call_addr THEN addr ELSE slots[k]]
    /\ UNCHANGED <<initialized, categories, owned, storage, menu, last, panicked, debug_assertions, written, image,
                   registered>>

\* The wrapper of entry e is called (by the patched system function, or by
\* the plugin itself); the user's block would return `ret`.
CallWrapper(e, ret) ==
    /\ ~panicked
    /\ SymbolsDistinct(image)
    /\ e \in 1..Len(Entries)
    /\ LET function  == SubSeq(Entries[e].name, 1, Len(Entries[e].name) - 1)
           real_func == <<114, 101, 97, 108, 95>> \o function
           filled    == real_func \in DOMAIN slots
       IN  \E o \in {function_hook_wrapper(function, filled, ret)} :
              /\ last' = Call("hooked call", "", function, ret,
                              [target    |-> Entries[e].target,
                               call_addr |-> Entries[e].call_addr,
                               hooked    |-> IF filled THEN slots[real_func] ELSE 0],
                              o.res, IF o.body THEN <<"block">> ELSE <<>>)
              /\ panicked' = (o.res.tag = "Panic")
    /\ UNCHANGED <<initialized, categories, owned, storage, menu, debug_assertions, written, image, slots, registered>>

NextLoad ==
    \/ \E module \in HookedModules, function \in HookedFunctions, my_func \in {FnF, FnG} :
          FunctionHook(module, function, my_func)
    \/ \E e \in 1..MaxEntries, addr \in Addresses : LoaderFill(e, addr)
    \/ \E e \in 1..MaxEntries, ret \in Returns : CallWrapper(e, ret)

\* The interception table.
SpecLoad == Init /\ [][NextLoad]_vars

(***************************************************************************)
(* The metadata region                                                     *)
(***************************************************************************)
MetaNames  == {<<110, 97, 109, 101>>, <<117, 114, 108>>}               \* name, url
MetaValues == {LitStr(<<>>), LitStr(<<77, 73, 84>>), LitStr(<<72, 0, 105>>),
               EnvMacro(CARGO_PKG_VERSION), EnvMacro(CARGO_PKG_LICENSE), LitBool(TRUE)}
Versions   == {<<48, 46, 56, 46, 49>>, <<>>}                            \* 0.8.1

Meta == Region(image, ".wups.meta")

PluginNames == {<<80>>, <<109, 121, 32, 112, 108, 117, 103, 105, 110>>}   \* P, my plugin
\* chrono::Utc::now().format("%b %d %Y %H:%M:%S") at the expansion.
Timestamps  == {<<79, 99, 116, 32, 51, 48, 32, 50, 48, 50, 54, 32, 49, 48, 58, 49, 50, 58, 51, 51>>}

\* The macro invocations written in the crate: WUPS_PLUGIN_NAME! leaves its
\* items, one of them named PLUGIN_NAME; every other invocation leaves one.
Invocations(items) ==
    Len(items)
    - Cardinality({i \in 1..Len(items) : items[i].symbol = <<80, 76, 85, 71, 73, 78, 95, 78, 65, 77, 69>>})
      * (Len(WUPS_PLUGIN_NAME(<<>>, <<>>, <<>>)) - 1)

\* The macro invocation that emitted the last item of the image.
Emitted(op, name, value) == Call(op, "", name, <<>>, value, Ok(Unit), <<>>)

\* wups_meta!(name, value) of the macros crate written in the plugin crate.
WupsMeta(name, value) ==
    /\ Invocations(image) < MaxMeta
    /\ image' = image \o wups_meta(name, value)
    /\ last' = Emitted("wups_meta!", name, value)
    /\ UNCHANGED <<initialized, categories, owned, storage, menu, panicked, debug_assertions, written, slots, registered>>

\* wups_meta!(id, value) of src/macros.rs written in the plugin crate.
MacrosWupsMeta(id, value) ==
    /\ Invocations(image) < MaxMeta
    /\ image' = image \o macros_wups_meta(id, value)
    /\ last' = Emitted("macros::wups_meta!", id, value)
    /\ UNCHANGED <<initialized, categories, owned, storage, menu, panicked, debug_assertions, written, slots, registered>>

\* WUPS_PLUGIN_NAME!(name) written in the plugin crate: the items of the one
\* expansion, and the hook registrations among them. Macros expand when the
\* crate is compiled, before the loader runs a hook of the image.
PluginName(name, WUPS_VERSION_STR, buildtimestamp) ==
    /\ ~panicked
    /\ last.op # "hook"
    /\ Invocations(image) < MaxMeta
    /\ \E items \in {WUPS_PLUGIN_NAME(name, WUPS_VERSION_STR, buildtimestamp)} :
          /\ image' = image \o items
          /\ registered' = registered \o
                [i \in 1..Len(Region(items, ".wups.hooks")) |->
                    Registration(SubSeq(Region(items, ".wups.hooks")[i].type_, 18,
                                        Len(Region(items, ".wups.hooks")[i].type_)),
                                 Region(items, ".wups.hooks")[i].target)]
    /\ last' = Emitted("WUPS_PLUGIN_NAME!", name,
                       [kind |-> "PluginName", text |-> name,
                        version |-> WUPS_VERSION_STR, buildtimestamp |-> buildtimestamp])
    /\ UNCHANGED <<initialized, categories, owned, storage, menu, panicked, debug_assertions,
                   written, slots>>

NextMeta ==
    \/ \E name \in MetaNames, value \in MetaValues : WupsMeta(name, value)
    \/ \E id \in MetaNames, value \in MetaValues : MacrosWupsMeta(id, value)
    \/ \E name \in PluginNames, version \in Versions, buildtimestamp \in Timestamps :
          PluginName(name, version, buildtimestamp)

\* The metadata region.
SpecMeta == Init /\ [][NextMeta]_vars

(***************************************************************************)
(* The runtime hooks: their emission and their invocation by the loader    *)
(***************************************************************************)
\* What the host answers while a hook runs: to wut_get_thread_specific
\* (0x13371337) the value the loader set, nothing or another value; to
\* WUPSStorageAPI_InitInternal success or a failure.
HookAnswers == {<<1111638594, 0>>, <<0, 0>>, <<322376503, 0>>,
                <<1111638594, WUPS_STORAGE_ERROR_INTERNAL_NOT_INITIALIZED>>}

\* The loader calls the target of the i-th record of the hooks region; the
\* host answers `tls` to wut_get_thread_specific and `status` to
\* WUPSStorageAPI_InitInternal, the loader's arguments carry version 1.
RunHook(i, tls, status) ==
    /\ ~panicked
    /\ Build(image).ok
    /\ i \in 1..Len(Region(image, ".wups.hooks"))
    /\ LET hook   == Region(image, ".wups.hooks")[i]
           target == CHOOSE j \in 1..Len(image) : image[j].symbol = hook.target[1]
       IN  \E o \in {Exec(image[target].value.body,
                           [tls |-> tls, status |-> status, version |-> 1], image)} :
              /\ last' = Call("hook", "", hook.target[1], <<>>,
                              [hook_type |-> hook.type_, tls |-> tls, status |-> status],
                              IF o.fatal THEN PanicWith(o.msg) ELSE Ok(Unit),
                              o.calls)
              /\ initialized' = InitializedAfter(initialized, o.calls)
              /\ panicked' = o.fatal
    /\ UNCHANGED <<categories, owned, storage, menu, debug_assertions, written, image, slots,
                   registered>>

NextRuntime ==
    \/ \E name \in PluginNames, buildtimestamp \in Timestamps :
          PluginName(name, <<48, 46, 56, 46, 49>>, buildtimestamp)
    \/ \E i \in 1..Len(Region(image, ".wups.hooks")), answer \in HookAnswers :
          RunHook(i, answer[1], answer[2])

\* The runtime hooks.
SpecRuntime == Init /\ [][NextRuntime]_vars

(***************************************************************************)
(* Properties                                                              *)
(***************************************************************************)
\* The host served the call: it did not fail it with an injected fault.
Served(c) == c.status \notin (HostFaults \ {0})

\* The last operation was `op` on a key without NUL bytes and made exactly
\* one host call, which the host served.
ServedOp(op) ==
    /\ last.op = op
    /\ ~HasNul(last.key)
    /\ Len(last.calls) = 1
    /\ Served(last.calls[1])

\* C1: for every fixed-width type T, key k without NUL bytes and value v, a
\* load::<T>(k) that the host serves, made while the last successful store,
\* delete or reset touching k was store::<T>(k, v), returns Ok(v).
C1_FixedRoundTrip ==
    ( /\ ServedOp("load")
      /\ last.ty \in FixedTypes
      /\ written[last.key].state = "stored"
      /\ written[last.key].ty = last.ty )
    => last.res = Ok(written[last.key].val)

\* A load returned a stored value that is not the type's default.
C1_Witness ==
    /\ ServedOp("load")
    /\ last.ty \in FixedTypes
    /\ written[last.key].state = "stored"
    /\ written[last.key].ty = last.ty
    /\ last.res.tag = "Ok"
    /\ last.res.val # Default(last.ty)

\* C2: load(k) on a key that is absent from the store (never stored, deleted
\* or wiped) returns Err(NotFound) to the caller; it does not return a value
\* and does not abort.
C2_LoadAbsentNotFound ==
    ( /\ ServedOp("load")
      /\ written[last.key].state # "stored" )
    => last.res = Err("NotFound")

\* C3: load_or_default::<T>(k) never fails: it returns the loaded value when
\* the load succeeds and T's default for every other outcome of the load.
C3_LoadOrDefaultNeverFails ==
    last.op = "load_or_default"
    => /\ last.res.tag = "Ok"
       /\ IF /\ ServedOp("load_or_default")
             /\ written[last.key].state = "stored"
             /\ written[last.key].ty = last.ty
          THEN last.res.val = written[last.key].val
          ELSE last.res.val = Default(last.ty)

\* C4: store(k, s) of a text or binary value of length >= STORAGE_MAX_LENGTH - 1
\* returns BufferTooSmall, makes no host call and leaves the store as it was.
C4_TooLongRejected ==
    [][ ( /\ last'.op = "store"
          /\ last'.ty \in {"String", "Vec<u8>"}
          /\ ~HasNul(last'.key)
          /\ Len(last'.val) >= STORAGE_MAX_LENGTH - 1 )
        => /\ last'.res = Err("BufferTooSmall")
           /\ last'.calls = <<>>
           /\ storage' = storage ]_vars

\* C5: after a successful reset(), load(k) returns Err(NotFound) for every key
\* stored before the reset, until k is stored again.
C5_LoadAfterReset ==
    ( /\ ServedOp("load")
      /\ written[last.key].state = "wiped" )
    => last.res = Err("NotFound")

\* C6: delete(k) on a stored key returns Ok and a following load(k) returns
\* Err(NotFound); delete(k) on an absent key returns Err(NotFound) and leaves
\* the store unchanged.
C6_Delete ==
    [][ /\ ( /\ last'.op = "delete"
             /\ ~HasNul(last'.key)
             /\ Len(last'.calls) = 1
             /\ Served(last'.calls[1]) )
           => IF written[last'.key].state = "stored"
              THEN last'.res = Ok(Unit)
              ELSE last'.res = Err("NotFound") /\ storage' = storage
        /\ ( /\ last'.op = "load"
             /\ ~HasNul(last'.key)
             /\ Len(last'.calls) = 1
             /\ Served(last'.calls[1])
             /\ written[last'.key].state = "deleted" )
           => last'.res = Err("NotFound") ]_vars

\* The host call of an attach that adds the item to the category, as the
\* n-th call of the last operation.
IsAddCall(n, fn) ==
    /\ Len(last.calls) >= n
    /\ last.calls[n].fn = fn

\* C7: Toggle attach with no value stored under its id stores the default
\* under that id and passes the default to the host as the current value;
\* Toggle attach after the change callback stored b under the id passes b.
C7_ToggleAttach ==
    last.op = "Toggle::attach" /\ Len(last.calls) >= 1
    => /\ last.calls[1].status = WUPS_STORAGE_ERROR_NOT_FOUND
          => /\ Len(last.calls) >= 2
             /\ last.calls[2].fn = "WUPSStorageAPI_StoreItem"
             /\ last.calls[2].key = last.key
             /\ last.calls[2].data = BoolToBytes(last.args.default)
             /\ Served(last.calls[2])
                => /\ IsAddCall(3, "WUPSConfigItemBoolean_AddToCategoryEx")
                   /\ last.calls[3].current = last.args.default
       /\ last.calls[1].status = WUPS_STORAGE_ERROR_SUCCESS
          => /\ IsAddCall(2, "WUPSConfigItemBoolean_AddToCategoryEx")
             /\ last.calls[2].current = BytesToBool(written[last.key].val)

\* C8: Range attach when the value stored under its id is below min or above
\* max passes `default` to the host as the current value, and returns Ok
\* when the host accepts the item.
C8_RangeOutsideGetsDefault ==
    ( /\ last.op = "Range::attach"
      /\ Len(last.calls) >= 1
      /\ last.calls[1].status = WUPS_STORAGE_ERROR_SUCCESS
      /\ \/ BytesToI32(last.calls[1].data) < last.args.min
         \/ BytesToI32(last.calls[1].data) > last.args.max )
    => /\ Len(last.calls) = 2
       /\ last.calls[2].fn = "WUPSConfigItemIntegerRange_AddToCategory"
       /\ last.calls[2].current = last.args.default
       /\ last.calls[2].status = WUPSCONFIG_API_RESULT_SUCCESS => last.res = Ok(Unit)

\* A Range attach found a value above max in storage and returned Ok.
C8_Witness ==
    /\ last.op = "Range::attach"
    /\ Len(last.calls) = 2
    /\ last.calls[1].status = WUPS_STORAGE_ERROR_SUCCESS
    /\ BytesToI32(last.calls[1].data) > last.args.max
    /\ last.args.min < last.args.default /\ last.args.default < last.args.max
    /\ last.res = Ok(Unit)

\* C9: Range attach passes every stored value v with min <= v <= max, the
\* ends included, to the host as the current value.
C9_RangeInsideKept ==
    ( /\ last.op = "Range::attach"
      /\ Len(last.calls) >= 1
      /\ last.calls[1].status = WUPS_STORAGE_ERROR_SUCCESS
      /\ BytesToI32(last.calls[1].data) >= last.args.min
      /\ BytesToI32(last.calls[1].data) <= last.args.max )
    => /\ Len(last.calls) = 2
       /\ last.calls[2].fn = "WUPSConfigItemIntegerRange_AddToCategory"
       /\ last.calls[2].current = BytesToI32(last.calls[1].data)

\* C10: Select attach when the index stored under its id is >= the number of
\* options passes the `default` index to the host as the current value, and
\* returns Ok when the host accepts the item.
C10_SelectOutsideGetsDefault ==
    ( /\ last.op = "Select::attach"
      /\ Len(last.calls) >= 1
      /\ last.calls[1].status = WUPS_STORAGE_ERROR_SUCCESS
      /\ ~U32Less(last.calls[1].data, U32ToBytes(Len(last.args.options))) )
    => /\ Len(last.calls) = 2
       /\ last.calls[2].fn = "WUPSConfigItemMultipleValues_AddToCategory"
       /\ last.calls[2].current = last.args.default
       /\ last.calls[2].status = WUPSCONFIG_API_RESULT_SUCCESS => last.res = Ok(Unit)

\* A Select attach found the index 2 of two options, or a larger one, in
\* storage and returned Ok.
C10_Witness ==
    /\ last.op = "Select::attach"
    /\ Len(last.calls) = 2
    /\ last.calls[1].status = WUPS_STORAGE_ERROR_SUCCESS
    /\ ~U32Less(last.calls[1].data, U32ToBytes(Len(last.args.options)))
    /\ last.args.default < Len(last.args.options)
    /\ last.res = Ok(Unit)

\* C11: Select attach passes every stored index i with 0 <= i < number of
\* options, i = 0 included, to the host as the current value.
C11_SelectInsideKept ==
    ( /\ last.op = "Select::attach"
      /\ Len(last.calls) >= 1
      /\ last.calls[1].status = WUPS_STORAGE_ERROR_SUCCESS
      /\ U32Less(last.calls[1].data, U32ToBytes(Len(last.args.options))) )
    => /\ Len(last.calls) = 2
       /\ last.calls[2].fn = "WUPSConfigItemMultipleValues_AddToCategory"
       /\ last.calls[2].current = U32AsI32(last.calls[1].data)

\* The (hook_type, target) pairs of the registrations made.
RegisteredPairs ==
    {<<"WUPS_LOADER_HOOK_" \o registered[i].hook_type, registered[i].target>> :
        i \in 1..Len(registered)}

\* C12: when the registrations made are for distinct (hook_type, target)
\* pairs, two of them sharing a target included, the plugin builds and its
\* hooks region holds one descriptor per registration and exactly the
\* registered pairs, whatever the order the registrations were made in.
C12_HookTable ==
    Cardinality(RegisteredPairs) = Len(registered)
    => /\ Build(image).ok
       /\ Len(Build(image).hooks) = Len(registered)
       /\ {<<Build(image).hooks[i].type_, Build(image).hooks[i].target>> :
              i \in 1..Len(Build(image).hooks)} = RegisteredPairs

\* C13: a call to a function_hook wrapper whose slot is still empty aborts
\* with a diagnostic that names the hooked symbol; the user's block is not
\* run and nothing is returned.
C13_EmptySlotAborts ==
    [][ (last'.op = "hooked call" /\ last' # last
            /\ (<<114, 101, 97, 108, 95>> \o last'.key) \notin DOMAIN slots)
        => /\ last'.res.tag = "Panic"
           /\ last'.res.val = <<84, 104, 101, 32, 102, 117, 110, 99, 116, 105, 111, 110, 32, 34>>
                                \o last'.key
                                \o <<34, 32, 119, 97, 115, 32, 110, 111, 116, 32, 112, 114,
                                     111, 112, 101, 114, 108, 121, 32, 104, 111, 111, 107, 101,
                                     100, 46>>
           /\ last'.calls = <<>>
           /\ panicked' ]_vars

\* An empty-slot call happened while another function's slot was filled.
C13_Witness ==
    /\ last.op = "hooked call"
    /\ last.res.tag = "Panic"
    /\ (<<114, 101, 97, 108, 95>> \o last.key) \notin DOMAIN slots
    /\ DOMAIN slots # {}
    /\ Len(Entries) = 2

\* The nine named statuses and the variant of each.
NamedStatus ==
    [c \in {-1, -2, -3, -4, -5, -6, -7, -240, -241} |->
        CASE c = -1   -> "InvalidArgs"
          [] c = -2   -> "MallocFailed"
          [] c = -3   -> "UnexpectedDataType"
          [] c = -4   -> "BufferTooSmall"
          [] c = -5   -> "AlreadyExists"
          [] c = -6   -> "IoError"
          [] c = -7   -> "NotFound"
          [] c = -240 -> "InternalNotInitialized"
          [] c = -241 -> "InternalInvalidVersion"]

\* C14: an operation that returns after its host call answered status s
\* returns Ok when s >= 0, the variant of s (one per named status, no two
\* alike) when s is one of the nine named statuses, and UnknownError(s) for
\* every other negative s.
C14_StatusMapping ==
    /\ \A c, d \in DOMAIN NamedStatus : c # d => NamedStatus[c] # NamedStatus[d]
    /\ (last.op \in {"load", "store", "delete", "reset", "reload", "save"}
          /\ last.calls # <<>> /\ last.res.tag # "Panic")
       => LET s == last.calls[Len(last.calls)].status
          IN  /\ s >= 0 => last.res.tag = "Ok"
              /\ s \in DOMAIN NamedStatus => last.res = Err(NamedStatus[s])
              /\ (s < 0 /\ s \notin DOMAIN NamedStatus) => last.res = ErrCode("UnknownError", s)

\* A store was answered with an unnamed negative status.
C14_Witness ==
    /\ last.op = "store"
    /\ last.calls # <<>>
    /\ last.calls[1].status = -242
    /\ last.res = ErrCode("UnknownError", -242)

\* C15: load, store or delete with a key that contains a NUL byte, and store
\* of a String value that contains a NUL byte, return ContainsNullBytes,
\* make no host call and leave the store as it was.
C15_EncodingFaultsBeforeHost ==
    [][ ( \/ last'.op \in {"load", "store", "delete"} /\ HasNul(last'.key)
          \/ last'.op = "store" /\ last'.ty = "String" /\ HasNul(last'.val) )
        => /\ last'.res = Err("ContainsNullBytes")
           /\ last'.calls = <<>>
           /\ storage' = storage ]_vars

\* C16: when the host invokes the close callback, save(force = false) is
\* called exactly once before the callback returns.
C16_CloseFlushes ==
    last.op = "_close_callback"
    => /\ Len(last.calls) = 1
       /\ last.calls[1].fn = "WUPSStorageAPI_SaveStorage"
       /\ last.calls[1].data = BoolToBytes(FALSE)

\* The change callbacks and the type each stores.
ChangeCallbacks ==
    [op \in {"_callback_toggle_changed", "_callback_range_changed",
             "_callback_select_changed"} |->
        CASE op = "_callback_toggle_changed" -> "WUPS_STORAGE_ITEM_BOOL"
          [] op = "_callback_range_changed"  -> "WUPS_STORAGE_ITEM_S32"
          [] op = "_callback_select_changed" -> "WUPS_STORAGE_ITEM_U32"]

\* C17: an item the host added carries the id given at attach; a change
\* callback on an item makes one store of the new value under that id,
\* returns normally whatever the store answered, and a failed store leaves
\* the value kept under the id as it was.
C17_ChangeCallbackStores ==
    [][ /\ (last'.op \in {"Toggle::attach", "Range::attach", "Select::attach"}
              /\ Len(menu') = Len(menu) + 1)
           => menu'[Len(menu')].identifier = last'.args.id
        /\ last'.op \in DOMAIN ChangeCallbacks
           => /\ \E i \in 1..Len(menu) :
                    /\ menu[i].callback = last'.op
                    /\ menu[i].identifier = last'.key
              /\ Len(last'.calls) = 1
              /\ last'.calls[1].fn = "WUPSStorageAPI_StoreItem"
              /\ last'.calls[1].key = last'.key
              /\ last'.calls[1].type = ChangeCallbacks[last'.op]
              /\ last'.calls[1].data = last'.val
              /\ last'.res = Ok(Unit)
              /\ ~panicked'
              /\ last'.calls[1].status # 0 => storage' = storage
              /\ last'.calls[1].status = 0
                 => storage' = [storage EXCEPT ![last'.key] =
                                   [type |-> ChangeCallbacks[last'.op], data |-> last'.val]]
      ]_vars

\* A change callback's store failed while another value was kept under the
\* id, on the second item of the menu.
C17_Witness ==
    /\ last.op = "_callback_toggle_changed"
    /\ last.key = KeyB
    /\ last.calls[1].status = WUPS_STORAGE_ERROR_IO_ERROR
    /\ storage[KeyB] # NoItem
    /\ storage[KeyB].data # last.val
    /\ Len(menu) = 2

\* The text a value expression stands for: a literal's own text, the value
\* of the environment variable (empty when it is not set) for env!.
PairValue(value) ==
    IF value.kind = "Env"
    THEN (IF value.text = CARGO_PKG_VERSION THEN <<49, 46, 48>> ELSE <<>>)
    ELSE value.text

\* The record held by the item wups_meta_<key> among `items`.
RecordOf(items, key) ==
    items[CHOOSE i \in 1..Len(items) :
             items[i].symbol = <<119, 117, 112, 115, 95, 109, 101, 116, 97, 95>> \o key].value

\* The items of the last expansion of WUPS_PLUGIN_NAME!.
LastExpansion ==
    SubSeq(image, Len(image) - Len(WUPS_PLUGIN_NAME(<<>>, <<>>, <<>>)) + 1, Len(image))

\* `record` is name, '=', value and one NUL, and as long as that.
PairRecord(record, name, value) ==
    /\ record = name \o <<61>> \o value \o <<0>>
    /\ Len(record) = Len(name) + 1 + Len(value) + 1

\* C18: the record emitted for a (name, value) pair is the bytes of name,
\* '=', the bytes of value and one terminating NUL, of length
\* len(name) + 1 + len(value) + 1; for wups_meta and for the `wups` record
\* (and the name, storage_id and buildtimestamp records) of
\* WUPS_PLUGIN_NAME. The macro_rules wups_meta emits no record.
C18_MetaRecord ==
    /\ last.op = "wups_meta!"
       => PairRecord(Meta[Len(Meta)], last.key, PairValue(last.args))
    /\ last.op = "WUPS_PLUGIN_NAME!"
       => /\ PairRecord(RecordOf(LastExpansion, <<119, 117, 112, 115>>), <<119, 117, 112, 115>>, last.args.version)
          /\ PairRecord(RecordOf(LastExpansion, <<110, 97, 109, 101>>), <<110, 97, 109, 101>>, last.args.text)
          /\ PairRecord(RecordOf(LastExpansion, <<115, 116, 111, 114, 97, 103, 101, 95, 105, 100>>),
                        <<115, 116, 111, 114, 97, 103, 101, 95, 105, 100>>, last.args.text)
          /\ PairRecord(RecordOf(LastExpansion, <<98, 117, 105, 108, 100, 116, 105, 109, 101, 115, 116, 97, 109, 112>>),
                        <<98, 117, 105, 108, 100, 116, 105, 109, 101, 115, 116, 97, 109, 112>>,
                        last.args.buildtimestamp)
    /\ last.op = "macros::wups_meta!"
       => /\ image[Len(image)].section # ".wups.meta"
          /\ ~Build(image).ok

\* A record with a NUL inside its value was written in the crate, then
\* WUPS_PLUGIN_NAME! was expanded, and the crate builds.
C18_Witness ==
    /\ last.op = "WUPS_PLUGIN_NAME!"
    /\ Build(image).ok
    /\ Len(Meta) = 12
    /\ Meta[1] = <<117, 114, 108, 61, 72, 0, 105, 0>>

\* C19: for every String s that store accepted and every key k, a
\* load::<String>(k) that the host serves, made while the last successful
\* store, delete or reset touching k was store::<String>(k, s), returns
\* Ok(s); also for the empty s and for an s that ends with a NUL character.
C19_StringRoundTrip ==
    ( /\ ServedOp("load")
      /\ last.ty = "String"
      /\ written[last.key].state = "stored"
      /\ written[last.key].ty = "String" )
    => last.res = Ok(written[last.key].val)

\* C20: a load of a fixed-width type whose host call reported a number of
\* bytes other than size_of(T) returns to the caller, with the host's error
\* when the call failed and a value otherwise; the process does not abort.
C20_LoadMismatchReturns ==
    ( /\ last.op = "load"
      /\ last.ty \in FixedTypes
      /\ Len(last.calls) = 1
      /\ last.calls[1].out # size_of(last.ty) )
    => /\ ~panicked
       /\ last.res.tag = (IF last.calls[1].status < 0 THEN "Err" ELSE "Ok")

\* C21: a load::<String> whose host call succeeded and reported n bytes read,
\* 0 <= n < 1024, returns the first n bytes of the buffer with one trailing
\* NUL removed when the n-th byte is NUL, and all n bytes otherwise: no
\* second trailing NUL and no NUL that is not last is removed.
C21_StringShortRead ==
    ( /\ last.op = "load" /\ last.ty = "String"
      /\ Len(last.calls) = 1
      /\ last.calls[1].status >= 0
      /\ last.calls[1].out < STORAGE_MAX_LENGTH )
    => LET n     == last.calls[1].out
           read  == SubSeq(last.calls[1].data \o Fill(STORAGE_MAX_LENGTH, 0), 1, n)
       IN  /\ last.res.tag = "Ok"
           /\ last.res.val = IF n > 0 /\ read[n] = 0 THEN SubSeq(read, 1, n - 1) ELSE read

\* The host read back a text that ends with NUL, and one that holds a
\* multi-byte character: the terminator alone was removed.
C21_Witness ==
    /\ last.op = "load" /\ last.ty = "String"
    /\ Len(last.calls) = 1
    /\ last.calls[1].out = 4
    /\ last.calls[1].data = <<72, 105, 0, 0>>
    /\ last.res = Ok(<<72, 105, 0>>)

\* The handles of the categories the host created.
Created == {CategoryHandle(n) : n \in 1..Len(categories)}

\* C22: a category is created before anything is attached to it, its
\* children are attached before it is attached to its parent and none after,
\* and only a category that was created is ever attached.
C22_CategoryOrdering ==
    /\ \A i \in 1..Len(menu) : menu[i].parent # RootHandle => menu[i].parent \in Created
    /\ \A j \in 1..Len(menu) :
          menu[j].kind = "Category"
          => /\ menu[j].handle \in Created
             /\ menu[j].handle \notin owned
             /\ \A i \in 1..Len(menu) : menu[i].parent = menu[j].handle => i < j
    /\ last.op = "Menu::attach" => last.calls[1].child \in Created
    /\ (last.op = "Menu::new" /\ last.res.tag = "Err") => last.calls[1].handle \notin Created
    /\ owned \subseteq Created

\* A Menu with a child was attached to the root.
C22_Witness ==
    /\ Len(menu) = 2
    /\ menu[1].parent = CategoryHandle(1)
    /\ menu[2].kind = "Category"
    /\ menu[2].handle = CategoryHandle(1)
    /\ menu[2].parent = RootHandle

\* The named failure statuses of the config host API and the variant of each.
NamedConfigStatus ==
    [c \in {-1, -3, -6, -112, -113, -128, -129, -130, -131, -132} |->
        CASE c = -1   -> "InvalidArgument"
          [] c = -3   -> "OutOfMemory"
          [] c = -6   -> "NotFound"
          [] c = -112 -> "InvalidPluginIdentifier"
          [] c = -113 -> "MissingCallback"
          [] c = -128 -> "ModuleNotFound"
          [] c = -129 -> "ModuleMissingExport"
          [] c = -130 -> "UnsupportedVersion"
          [] c = -131 -> "UnsupportedCommand"
          [] c = -132 -> "LibUninitialized"]

\* The status the last config operation was answered with (or was given).
ConfigStatusOf(l) ==
    IF l.op \in {"config::MenuError::try_from", "ui::MenuError::try_from"}
    THEN l.args.value
    ELSE l.calls[Len(l.calls)].status

\* C23: SUCCESS maps to Ok, each named failure status to the variant of its
\* name (no two to the same variant) and every other status v to Unknown(v),
\* in every implementation of the mapping and through every operation that
\* returns it.
C23_ConfigStatusMapping ==
    /\ \A c, d \in DOMAIN NamedConfigStatus :
          c # d => NamedConfigStatus[c] # NamedConfigStatus[d]
    /\ ( /\ last.op \in {"config::MenuError::try_from", "ui::MenuError::try_from",
                         "Menu::new", "Label::attach", "Menu::attach"}
         /\ last.op \in {"Menu::new", "Label::attach", "Menu::attach"} => last.calls # <<>> )
       => LET v == ConfigStatusOf(last)
          IN  /\ v = 0 => last.res.tag = "Ok"
              /\ v \in DOMAIN NamedConfigStatus => last.res = Err(NamedConfigStatus[v])
              /\ (v # 0 /\ v \notin DOMAIN NamedConfigStatus)
                 => last.res = ErrCode("Unknown", v)

\* C24: in the image every entry's slot is a static initialised to None;
\* a filled slot is never emptied or rewritten; and once the loader has
\* written the slot an entry points to, every call of that entry's wrapper
\* runs the user's block with `hooked` equal to the address the loader wrote
\* and does not abort.
C24_SlotStateMachine ==
    /\ [][ /\ \A i \in 1..Len(image') :
                image'[i].section = ".wups.load" =>
                    \E j \in 1..Len(image') :
                        /\ image'[j].symbol = image'[i].value.call_addr
                        /\ image'[j].section = ".data"
                        /\ image'[j].value.target = <<>>
           /\ \A k \in DOMAIN slots : k \in DOMAIN slots' /\ slots'[k] = slots[k] ]_vars
    /\ [][ (last'.op = "hooked call" /\ last' # last
                /\ last'.args.call_addr \in DOMAIN slots)
            => /\ last'.res = Ok(last'.val)
               /\ last'.calls = <<"block">>
               /\ last'.args.hooked = slots[last'.args.call_addr]
               /\ last'.args.hooked # 0
               /\ ~panicked' ]_vars

\* A wrapper was called after the loader filled its slot, while another
\* entry's slot was still empty.
C24_Witness ==
    /\ last.op = "hooked call"
    /\ last.args.call_addr \in DOMAIN slots
    /\ last.args.hooked = slots[last.args.call_addr]
    /\ Len(Entries) = 2
    /\ \E e \in 1..2 : Entries[e].call_addr \notin DOMAIN slots

\* The host calls of an operation that are storage calls / stores.
StorageCallsOf(calls) ==
    {i \in 1..Len(calls) :
        calls[i].fn \in {"WUPSStorageAPI_GetItem", "WUPSStorageAPI_StoreItem",
                         "WUPSStorageAPI_DeleteItem", "WUPSStorageAPI_SaveStorage",
                         "WUPSStorageAPI_ForceReloadStorage", "WUPSStorageAPI_WipeStorage"}}
StoreCallsOf(calls) ==
    {i \in 1..Len(calls) : calls[i].fn = "WUPSStorageAPI_StoreItem"}

\* C25: Toggle, Range and Select attach store only after their load said
\* NotFound; while a value exists under the id they store nothing and leave
\* storage as it is, an out-of-domain value included; an attach that got as
\* far as the host's add leaves a value under the id, so attaches after it
\* change nothing; Label and Menu attach and Menu::new make no storage call.
C25_AttachStoresOnlyNotFound ==
    [][ /\ last'.op \in {"Toggle::attach", "Range::attach", "Select::attach"}
           => /\ \A i \in StoreCallsOf(last'.calls) :
                    /\ i = 2
                    /\ last'.calls[1].fn = "WUPSStorageAPI_GetItem"
                    /\ last'.calls[1].status = WUPS_STORAGE_ERROR_NOT_FOUND
                    /\ storage[last'.key] = NoItem
                    /\ IF last'.calls[2].status = WUPS_STORAGE_ERROR_SUCCESS
                       THEN storage'[last'.key].data = last'.calls[2].data
                       ELSE storage' = storage
              /\ storage[last'.key] # NoItem
                    => StoreCallsOf(last'.calls) = {} /\ storage' = storage
              /\ StoreCallsOf(last'.calls) = {} => storage' = storage
              /\ (\E i \in 1..Len(last'.calls) : last'.calls[i].fn \notin
                        {"WUPSStorageAPI_GetItem", "WUPSStorageAPI_StoreItem"})
                    => storage'[last'.key] # NoItem
        /\ last'.op \in {"Label::attach", "Menu::attach", "Menu::new"}
           => /\ StorageCallsOf(last'.calls) = {}
              /\ storage' = storage ]_vars

\* A Range attach found the out-of-domain value 2 under its id, handed the
\* default to the host and left the 2 in storage, with a Label in the menu.
C25_Witness ==
    /\ last.op = "Range::attach"
    /\ last.res = Ok(Unit)
    /\ Len(last.calls) = 2
    /\ last.calls[1].data = I32ToBytes(2)
    /\ last.calls[2].current = 0
    /\ storage[KeyA].data = I32ToBytes(2)
    /\ \E i \in 1..Len(menu) : menu[i].kind = "Stub"

\* C26: when the load in Toggle, Range or Select attach fails with an error
\* other than NotFound, or the store of the default after NotFound fails,
\* attach returns that storage error, makes no add call, and the host
\* category is as it was.
C26_AttachReturnsStorageError ==
    [][ ( /\ last'.op \in {"Toggle::attach", "Range::attach", "Select::attach"}
          /\ last'.calls # <<>>
          /\ last'.calls[1].fn = "WUPSStorageAPI_GetItem" )
        => LET calls  == last'.calls
               Failed(i) ==
                   /\ last'.res = MenuError_STORAGE(StorageError_try_from(calls[i].status))
                   /\ Len(calls) = i
                   /\ menu' = menu
                   /\ ~panicked'
           IN  /\ calls[1].status \notin {WUPS_STORAGE_ERROR_SUCCESS, WUPS_STORAGE_ERROR_NOT_FOUND}
                  => Failed(1)
               /\ ( /\ calls[1].status = WUPS_STORAGE_ERROR_NOT_FOUND
                    /\ Len(calls) >= 2
                    /\ calls[2].fn = "WUPSStorageAPI_StoreItem"
                    /\ calls[2].status # WUPS_STORAGE_ERROR_SUCCESS )
                  => Failed(2) ]_vars

\* The external function of the subsystem each WUT hook type is for.
SubsystemExtern ==
    "WUPS_LOADER_HOOK_INIT_WUT_MALLOC" :> <<95, 95, 105, 110, 105, 116, 95, 119, 117, 116, 95, 109, 97, 108, 108, 111, 99>>
    @@ "WUPS_LOADER_HOOK_INIT_WUT_NEWLIB" :> <<95, 95, 105, 110, 105, 116, 95, 119, 117, 116, 95, 110, 101, 119, 108, 105, 98>>
    @@ "WUPS_LOADER_HOOK_INIT_WUT_STDCPP" :> <<95, 95, 105, 110, 105, 116, 95, 119, 117, 116, 95, 115, 116, 100, 99, 112, 112>>
    @@ "WUPS_LOADER_HOOK_INIT_WUT_DEVOPTAB" :> <<95, 95, 105, 110, 105, 116, 95, 119, 117, 116, 95, 100, 101, 118, 111, 112, 116, 97, 98>>
    @@ "WUPS_LOADER_HOOK_INIT_WUT_SOCKETS" :> <<95, 95, 105, 110, 105, 116, 95, 119, 117, 116, 95, 115, 111, 99, 107, 101, 116>>
    @@ "WUPS_LOADER_HOOK_FINI_WUT_MALLOC" :> <<95, 95, 102, 105, 110, 105, 95, 119, 117, 116, 95, 109, 97, 108, 108, 111, 99>>
    @@ "WUPS_LOADER_HOOK_FINI_WUT_NEWLIB" :> <<95, 95, 102, 105, 110, 105, 95, 119, 117, 116, 95, 110, 101, 119, 108, 105, 98>>
    @@ "WUPS_LOADER_HOOK_FINI_WUT_STDCPP" :> <<95, 95, 102, 105, 110, 105, 95, 119, 117, 116, 95, 115, 116, 100, 99, 112, 112>>
    @@ "WUPS_LOADER_HOOK_FINI_WUT_DEVOPTAB" :> <<95, 95, 102, 105, 110, 105, 95, 119, 117, 116, 95, 100, 101, 118, 111, 112, 116, 97, 98>>
    @@ "WUPS_LOADER_HOOK_FINI_WUT_SOCKETS" :> <<95, 95, 102, 105, 110, 105, 95, 119, 117, 116, 95, 115, 111, 99, 107, 101, 116>>

\* C27: the target of every INIT_WUT_S and FINI_WUT_S hook calls the init
\* (resp. fini) function of the subsystem S, once, and no other function.
C27_HookCallsOwnSubsystem ==
    (last.op = "hook" /\ last.args.hook_type \in DOMAIN SubsystemExtern)
    => last.calls = <<ExternCall(SubsystemExtern[last.args.hook_type])>>

\* Substring test on byte sequences.
Contains(text, part) ==
    \E i \in 0..(Len(text) - Len(part)) : SubSeq(text, i + 1, i + Len(part)) = part

\* The plugin name given to WUPS_PLUGIN_NAME!, read from the `name` record.
EmittedNames ==
    {n \in PluginNames : \E i \in 1..Len(image) :
        /\ image[i].symbol = <<119, 117, 112, 115, 95, 109, 101, 116, 97, 95, 105, 110, 102, 111, 95, 108, 105, 110, 107, 105, 110, 103, 95, 111, 114, 100, 101, 114>>
        /\ image[i].value = wups_meta(<<105, 110, 102, 111, 95, 108, 105, 110, 107, 105, 110, 103, 95, 111, 114, 100, 101, 114>>,
                                      LitStr(linking_order(n)))[1].value}

\* C29: the target of the INIT_WRAPPER hook, when wut_get_thread_specific
\* (0x13371337) is not 0x42424242, hands the linking-order diagnostic naming
\* the plugin to OSFatal and does not run __init; otherwise it calls __init
\* once and nothing else.
C29_InitWrapperChecksLinking ==
    (last.op = "hook" /\ last.args.hook_type = "WUPS_LOADER_HOOK_INIT_WRAPPER")
    => IF last.args.tls # 1111638594
       THEN /\ Len(last.calls) = 1
            /\ last.calls[1].fn = <<79, 83, 70, 97, 116, 97, 108>>
            /\ \E n \in EmittedNames :
                  /\ Contains(last.calls[1].msg, linking_order(n))
                  /\ Contains(last.calls[1].msg, <<34>> \o n \o <<34>>)
            /\ panicked
       ELSE /\ last.calls = <<ExternCall(<<95, 95, 105, 110, 105, 116>>)>>
            /\ ~panicked
            /\ <<>> \in initialized

\* The loader ran the init wrapper with the linking order broken, after some
\* subsystem had been initialised.
C29_Witness ==
    /\ last.op = "hook"
    /\ last.args.hook_type = "WUPS_LOADER_HOOK_INIT_WRAPPER"
    /\ last.args.tls = 0
    /\ last.calls[1].fn = <<79, 83, 70, 97, 116, 97, 108>>
    /\ initialized # {}

\* C28: a Range built with min < default < max and a Select built with
\* default < number of options, whenever their attach returns Ok, have
\* handed the host a current value inside the item's domain:
\* min <= current <= max, resp. 0 <= current < number of options.
C28_CurrentInDomain ==
    LET add == last.calls[Len(last.calls)]
    IN  /\ ( /\ last.op = "Range::attach"
             /\ last.res = Ok(Unit)
             /\ last.args.min < last.args.default /\ last.args.default < last.args.max )
           => /\ add.fn = "WUPSConfigItemIntegerRange_AddToCategory"
              /\ add.min = last.args.min /\ add.max = last.args.max
              /\ add.min <= add.current /\ add.current <= add.max
        /\ ( /\ last.op = "Select::attach"
             /\ last.res = Ok(Unit)
             /\ last.args.default < Len(last.args.options) )
           => /\ add.fn = "WUPSConfigItemMultipleValues_AddToCategory"
              /\ add.count = Len(last.args.options)
              /\ 0 <= add.current /\ add.current < add.count

\* A Select attach returned Ok with the index 4294967295 stored under its
\* id, in a menu that already held an item.
C28_Witness ==
    /\ last.op = "Select::attach"
    /\ last.res = Ok(Unit)
    /\ last.args.default < Len(last.args.options)
    /\ last.calls[1].data = <<255, 255, 255, 255>>
    /\ Len(menu) = 2

\* The texts the last config operation was given.
TextsOf(l) ==
    CASE l.op = "Toggle::attach" ->
            {l.args.text, l.args.id, l.args.true_value, l.args.false_value}
      [] l.op = "Range::attach"  -> {l.args.text, l.args.id}
      [] l.op = "Select::attach" ->
            {l.args.text, l.args.id} \cup {l.args.options[i] : i \in 1..Len(l.args.options)}
      [] l.op \in {"Label::attach", "Menu::new"} -> {l.args.text}
      [] l.op = "ConfigMenu::init" -> {l.args.name}
      [] OTHER -> {}

\* C30: attach of a Toggle, Range, Select or Label, Menu::new and
\* ConfigMenu::init given a display text, id, label or option text with an
\* embedded NUL byte return an error value, make no host or storage call
\* and do not abort the process.
C30_NulIsAnErrorValue ==
    (\E t \in TextsOf(last) : HasNul(t))
    => /\ last.res.tag = "Err"
       /\ last.calls = <<>>
       /\ ~panicked
====
